---- MODULE Spec2Model ----
(***************************************************************************)
(* A model of the chain-source layer of ldk-node (src/chain/mod.rs):       *)
(* the WalletSyncStatus single-flight gate, the Electrum runtime status    *)
(* with its pending registrations, the tx-based and the block-polling sync *)
(* drivers, the wallet syncers and the broadcast pump.                     *)
(***************************************************************************)
EXTENDS Integers, Sequences, FiniteSets, TLC

(***************************************************************************)
(* Bounds of the model.                                                    *)
(***************************************************************************)
\* The wall clock runs from 1 to MaxNow.
MaxNow == 2

\* The chain tips the block source can report are 1..MaxTip.
MaxTip == 2

\* The transient failures one initial catch-up is followed through.
MaxTransient == 9

\* The channel monitors a node has.
MaxMonitors == 2

\* The packages the broadcast queue holds at most, and the packages sent.
MaxQueue == 2
Packages == {<<1>>, <<2, 1>>}

\* The transactions the broadcaster sends before it sends no more.
MaxSent == 3

\* The height the chain grows to.
MaxHeight == 7
MaxTargets == 2

\* How far past its deadline an Interval is followed, in seconds.
MaxLate == 4

\* The Filter registrations an Electrum status is followed through, and the
\* txids and outputs that are registered.
MaxRegistrations == 4
FilterIds == {1, 2}

\* WALLET_SYNC_INTERVAL_MINIMUM_SECS of crate::config, in the seconds of the
\* model, and the seconds a BackgroundSyncConfig may name for an interval.
WALLET_SYNC_INTERVAL_MINIMUM_SECS == 2
ConfiguredSecs == {1, 3}

\* The block hashes, and the heights of the channel monitors' best blocks.
BlockHashes == {1, 2}
Heights == {1, 2}

(***************************************************************************)
(* Program constants.                                                      *)
(***************************************************************************)
CHAIN_POLLING_INTERVAL_SECS == 2
MAX_BACKOFF_SECS == 300
RESOLVED_CHANNEL_MONITOR_ARCHIVAL_INTERVAL == 6

\* The tasks: the background driver task and the manual callers
\* (Node::sync_wallets and the like).
Driver == 0
Callers == {1}
Tasks == {Driver} \cup Callers

Kinds == {"onchain", "lightning", "polling"}
\* Names for the broadcast channels alive at one time: one per task that can
\* hold an end of a channel, and one for the status.
Channels == 1..(Cardinality(Tasks) + 1)

\* An absent Option<u64> timestamp, an absent Option<u32> height, an absent
\* Option<ValidatedBlockHeader>, and nobody holding a mutex.
NoTime == 0
NoHeight == -1
NoTip == 0
Nobody == -1

\* The listeners whose best block the chain source reads.
Listeners == {"onchain_wallet", "channel_manager", "output_sweeper"}

\* A BestBlock: a height and the hash of the block at that height.
BestBlock(h, x) == [height |-> h, block_hash |-> x]

VARIABLES
    backend,              \* the ChainSource variant
    debug_assertions,     \* whether debug_assert! is compiled in
    status,               \* the WalletSyncStatus of each work kind
    poisoned,             \* the locks a panic has poisoned
    chan,                 \* the value sent on each broadcast channel
    task,                 \* where each task stands in the operation it runs
    drv,                  \* where continuously_sync_wallets stands
    node_metrics,         \* the shared NodeMetrics record
    now,                  \* SystemTime::now(), unix seconds
    stop_signal,          \* the stop watch channel has changed
    electrum_runtime_status,
    kv_store,             \* whether the store holds the NodeMetrics in memory
    best_block,           \* current_best_block() of wallet, manager, sweeper
    monitors,             \* the channel monitors, in list_monitors() order
    latest_chain_tip,     \* BitcoindChainSource::latest_chain_tip
    header_cache,         \* the task that holds the header_cache mutex
    chain_listeners,      \* the listeners of the latest synchronize_listeners
    archival_heights,     \* the heights archive_fully_resolved_channel_monitors ran at
    broadcast_queue,      \* the mpsc channel of the TransactionBroadcaster, and
                          \* every transaction sent on it so far
    pump,                 \* where process_broadcast_queue stands, and the
                          \* broadcasts it has attempted
    network,              \* config.network
    estimates,            \* what the backend estimates for each target now
    fee_rate_cache,       \* the cache of the OnchainFeeEstimator
    fee_update,           \* the locals of each update_fee_rate_estimates call
    interval              \* the tokio Intervals of the running loop, and by how
                          \* many periods the last tick came late

\* The state of the chain, of the listeners and of the Bitcoind chain source.
chain_state == <<best_block, monitors, latest_chain_tip, header_cache,
                 chain_listeners, archival_heights>>

\* The state of the broadcast queue and its consumer.
tx_broadcaster == <<broadcast_queue, pump>>

\* The state of the fee estimation.
fee_estimator == <<network, estimates, fee_rate_cache, fee_update>>

vars == <<backend, debug_assertions, status, poisoned, chan, task, drv,
          node_metrics, now, stop_signal, electrum_runtime_status, kv_store,
          chain_state, tx_broadcaster, fee_estimator, interval>>

(***************************************************************************)
(* WalletSyncStatus                                                        *)
(***************************************************************************)
\* WalletSyncStatus::Completed; ch names the channel of InProgress.
Completed == [state |-> "Completed", ch |-> 0]

\* Returns the new status and the receiver: 0 for None (the caller owns the
\* sync), the channel subscribed to otherwise. `fresh` names the channel that
\* tokio::sync::broadcast::channel(1) creates.
register_or_subscribe_pending_sync(st, fresh) ==
    IF st.state = "Completed"
    THEN [status |-> [state |-> "InProgress", ch |-> fresh], receiver |-> 0]
    ELSE [status |-> st, receiver |-> st.ch]

\* A propagation that reports failure whatever it is given.
propagate_failure(st, msgs, res, receiver_count) ==
    IF st.state = "Completed"
    THEN [status |-> st, msgs |-> msgs]
    ELSE [status |-> Completed,
          msgs |-> IF receiver_count > 0
                   THEN [msgs EXCEPT ![st.ch] = "TxSyncFailed"]
                   ELSE msgs]

\* Returns the new status and the new contents of the kind's channels.
propagate_result_to_subscribers(st, msgs, res, receiver_count) ==
    IF st.state = "Completed"
    THEN [status |-> st, msgs |-> msgs]
    ELSE [status |-> Completed,
          msgs |-> IF receiver_count > 0
                   THEN [msgs EXCEPT ![st.ch] = res]
                   ELSE msgs]

KindOf(op) ==
    CASE op = "sync_onchain_wallet" -> "onchain"
      [] op = "sync_lightning_wallet" -> "lightning"
      [] op = "poll_and_update_listeners" -> "polling"
      [] OTHER -> "none"

\* subscribers.receiver_count(): the receivers alive on the kind's channel.
ReceiverCount(k) ==
    Cardinality({t \in Tasks : /\ task[t].pc = "await_recv"
                               /\ KindOf(task[t].op) = k
                               /\ task[t].ch = status[k].ch})

\* A channel name no status, task or undelivered value refers to.
InUse(k, c) ==
    \/ status[k].ch = c
    \/ chan[k][c] # "none"
    \/ \E t \in Tasks : KindOf(task[t].op) = k /\ task[t].ch = c

FreshChannel(k) ==
    CHOOSE c \in Channels : ~InUse(k, c) /\ \A d \in 1..(c - 1) : InUse(k, d)

IdleTask == [pc |-> "idle", op |-> "-", ch |-> 0, owner |-> FALSE,
             res |-> "none", mode |-> "-"]

\* The driver's task is taken by the driver's own ticks only.
Free(t) == task[t].pc = "idle" /\ t \in Callers

Subscribed(op, c) ==
    [pc |-> "await_recv", op |-> op, ch |-> c, owner |-> FALSE,
     res |-> "none", mode |-> "-"]

Returned(t, res) == [task[t] EXCEPT !.pc = "returned", !.res = res]


\* SystemTime::now().duration_since(UNIX_EPOCH).ok().map(|d| d.as_secs()): the
\* readings the wall clock can give, none of them before the last reading.
UnixTimeSecsOpt == now..MaxNow

(***************************************************************************)
(* ElectrumRuntimeStatus                                                   *)
(***************************************************************************)
\* ElectrumRuntimeStatus::new(). `client` is what the ElectrumRuntimeClient of
\* a Started status has been told to watch, in the order it was told,
\* `replayed` how much of that start() told it, and `guard` who holds the
\* write guard of the RwLock around the status across steps.
ElectrumRuntimeStatus_new ==
    [state |-> "Stopped", pending_registered_txs |-> <<>>,
     pending_registered_outputs |-> <<>>, client |-> <<>>, replayed |-> 0,
     guard |-> "free"]

\* A lock that lets every writer in.
write_unguarded(st) == TRUE

\* electrum_runtime_status.write(): granted once no guard is out.
RwLock_write(st) == st.guard = "free"

TxEntry(x) == [filter |-> "tx", id |-> x]
OutputEntry(x) == [filter |-> "output", id |-> x]

\* for x in pending.drain(..) { client.register_..(x) }
RECURSIVE Drain(_, _, _)
Drain(pending, filter, client) ==
    IF pending = <<>> THEN client
    ELSE Drain(Tail(pending), filter,
               Append(client, [filter |-> filter, id |-> Head(pending)]))

\* A start() that replays the pending outputs before the pending txs.
start_outputs_first(st, client_ok) ==
    IF st.state = "Stopped" /\ client_ok
    THEN [state |-> "Started", pending_registered_txs |-> <<>>,
          pending_registered_outputs |-> <<>>,
          client |-> Drain(st.pending_registered_txs, "tx",
                           Drain(st.pending_registered_outputs, "output", <<>>)),
          replayed |-> Len(st.pending_registered_txs)
                       + Len(st.pending_registered_outputs),
          guard |-> st.guard]
    ELSE st

\* A start() that empties the queues before it knows it has a client.
start_drains_first(st, client_ok) ==
    IF st.state = "Stopped"
    THEN [state |-> IF client_ok THEN "Started" ELSE "Stopped",
          pending_registered_txs |-> <<>>,
          pending_registered_outputs |-> <<>>,
          client |-> IF client_ok
                     THEN Drain(st.pending_registered_outputs, "output",
                                Drain(st.pending_registered_txs, "tx", <<>>))
                     ELSE <<>>,
          replayed |-> IF client_ok
                       THEN Len(st.pending_registered_txs)
                            + Len(st.pending_registered_outputs)
                       ELSE st.replayed,
          guard |-> st.guard]
    ELSE st

\* The status after start(); client_ok: ElectrumRuntimeClient::new succeeded.
ElectrumRuntimeStatus_start(st, client_ok) ==
    IF st.state = "Stopped"
    THEN IF client_ok
         THEN [state |-> "Started", pending_registered_txs |-> <<>>,
               pending_registered_outputs |-> <<>>,
               client |-> Drain(st.pending_registered_outputs, "output",
                                Drain(st.pending_registered_txs, "tx", <<>>)),
               replayed |-> Len(st.pending_registered_txs)
                            + Len(st.pending_registered_outputs),
               guard |-> st.guard]
         ELSE st
    ELSE st

\* A stop that only flips the state and keeps what the status held.
stop_keeps_contents(st) == [st EXCEPT !.state = "Stopped"]

\* ElectrumRuntimeStatus::stop: *self = Self::new()
ElectrumRuntimeStatus_stop(st) == ElectrumRuntimeStatus_new

ElectrumRuntimeStatus_register_tx(st, x) ==
    IF st.state = "Started"
    THEN [st EXCEPT !.client = Append(@, TxEntry(x))]
    ELSE [st EXCEPT !.pending_registered_txs = Append(@, x)]

ElectrumRuntimeStatus_register_output(st, x) ==
    IF st.state = "Started"
    THEN [st EXCEPT !.client = Append(@, OutputEntry(x))]
    ELSE [st EXCEPT !.pending_registered_outputs = Append(@, x)]

\* electrum_runtime_status.read().unwrap().client() is Some
ElectrumClient ==
    /\ "electrum_runtime_status" \notin poisoned
    /\ electrum_runtime_status.state = "Started"

\* An operation that reports success when it finds no Electrum client.
ElectrumNoClient_succeeds(op, err) ==
    [IdleTask EXCEPT !.pc = "returned", !.op = op, !.res = "Ok"]

\* The task of an operation that found no Electrum client: unwrap() of a
\* poisoned lock and debug_assert!(false) panic, a release build returns err.
ElectrumNoClient(op, err) ==
    IF "electrum_runtime_status" \in poisoned \/ debug_assertions
    THEN [IdleTask EXCEPT !.pc = "panicked", !.op = op]
    ELSE [IdleTask EXCEPT !.pc = "returned", !.op = op, !.res = err]

\* A write whose outcome is the opposite of what the store reports.
write_lost(write_ok) == ~write_ok

\* write_node_metrics(&*locked_node_metrics, kv_store, logger) after the
\* metrics were changed: whether the store now holds the metrics in memory.
write_node_metrics(write_ok) == write_ok

(***************************************************************************)
(* sync_onchain_wallet (Esplora and Electrum)                              *)
(***************************************************************************)
\* Up to the first await: the Electrum client lookup, the registration, the
\* choice between a full scan and an incremental sync, the backend call.
sync_onchain_wallet_begin(t) ==
    /\ backend \in {"Esplora", "Electrum"}
    /\ IF backend = "Electrum" /\ ~ElectrumClient
       THEN /\ task' = [task EXCEPT ![t] =
                   ElectrumNoClient("sync_onchain_wallet", "FeerateEstimationUpdateFailed")]
            /\ UNCHANGED status
       ELSE LET r == register_or_subscribe_pending_sync(status["onchain"],
                                                        FreshChannel("onchain")) IN
            /\ status' = [status EXCEPT !["onchain"] = r.status]
            /\ IF r.receiver # 0
               THEN task' = [task EXCEPT ![t] = Subscribed("sync_onchain_wallet", r.receiver)]
               ELSE task' = [task EXCEPT ![t] =
                           [pc |-> "await_sync", op |-> "sync_onchain_wallet",
                            ch |-> r.status.ch, owner |-> TRUE, res |-> "none",
                            mode |-> IF node_metrics.latest_onchain_wallet_sync_timestamp # NoTime
                                     THEN "incremental" ELSE "full_scan"]]
    /\ UNCHANGED <<backend, fee_estimator, debug_assertions, poisoned, chan, node_metrics, now,
                   stop_signal, electrum_runtime_status, kv_store,
                   chain_state, tx_broadcaster>>

\* What the wallet-sync future resolves to.
OnchainOutcomes ==
    IF backend = "Esplora" THEN {"ok", "reqwest", "esplora", "timeout"}
    ELSE {"ok", "failed", "timeout"}

\* A mapping that reports every failure as WalletOperationFailed.
wallet_update_error_flat(outcome) == "WalletOperationFailed"

\* The Err arms of get_and_apply_wallet_update!: the elapsed timeout is
\* WalletOperationTimeout; esplora_client::Error::Reqwest and every other
\* Esplora error are WalletOperationFailed.
wallet_update_error(outcome) ==
    CASE outcome = "timeout" -> "WalletOperationTimeout"
      [] OTHER -> "WalletOperationFailed"

\* The backend call has resolved: apply the update, record the timestamp and
\* persist. A failed write_node_metrics leaves sync_onchain_wallet at once on
\* Esplora (the `?` of the macro is the function's), and is the closure's
\* result on Electrum.
sync_onchain_wallet_finish(t) ==
    /\ task[t].pc = "await_sync"
    /\ task[t].op = "sync_onchain_wallet"
    /\ \E outcome \in OnchainOutcomes, apply_ok \in BOOLEAN, write_ok \in BOOLEAN,
          unix_time_secs_opt \in UnixTimeSecsOpt :
         IF outcome = "ok" /\ apply_ok
         THEN /\ now' = unix_time_secs_opt
              /\ node_metrics' = [node_metrics EXCEPT
                     !.latest_onchain_wallet_sync_timestamp = unix_time_secs_opt]
              /\ kv_store' = write_node_metrics(write_ok)
              /\ task' = [task EXCEPT ![t] =
                     IF write_ok
                     THEN [@ EXCEPT !.pc = "publish", !.res = "Ok"]
                     ELSE IF backend = "Esplora"
                          THEN [@ EXCEPT !.pc = "returned", !.res = "PersistenceFailed"]
                          ELSE [@ EXCEPT !.pc = "publish", !.res = "PersistenceFailed"]]
         ELSE /\ write_ok /\ unix_time_secs_opt = now
              /\ (outcome # "ok" => apply_ok)
              /\ task' = [task EXCEPT ![t] = [@ EXCEPT !.pc = "publish", !.res =
                     IF outcome = "ok" THEN "WalletOperationFailed"
                     ELSE wallet_update_error(outcome)]]
              /\ UNCHANGED <<node_metrics, kv_store, now,
                   chain_state, tx_broadcaster>>
    /\ UNCHANGED <<backend, fee_estimator, interval, debug_assertions, status, poisoned, chan, drv,
                   stop_signal, electrum_runtime_status,
                   chain_state, tx_broadcaster>>

(***************************************************************************)
(* The two ends of every operation that registered                         *)
(***************************************************************************)
\* sync_receiver.recv().await of a subscriber, and its return.
subscriber_recv(t) ==
    /\ task[t].pc = "await_recv"
    /\ chan[KindOf(task[t].op)][task[t].ch] # "none"
    /\ task' = [task EXCEPT ![t] = Returned(t, chan[KindOf(task[t].op)][task[t].ch])]
    /\ chan' = [chan EXCEPT ![KindOf(task[t].op)][task[t].ch] =
                   IF \E u \in Tasks \ {t} : /\ task[u].pc = "await_recv"
                                              /\ task[u].op = task[t].op
                                              /\ task[u].ch = task[t].ch
                   THEN @ ELSE "none"]
    /\ UNCHANGED <<backend, fee_estimator, interval, debug_assertions, status, poisoned, drv,
                   node_metrics, now, stop_signal, electrum_runtime_status, kv_store,
                   chain_state, tx_broadcaster>>

\* status.lock().unwrap().propagate_result_to_subscribers(res); res
\* Returning drops the guard of the header cache; a poisoned status mutex
\* panics instead.
owner_publish(t) ==
    /\ task[t].pc = "publish"
    /\ LET k == KindOf(task[t].op)
           p == propagate_result_to_subscribers(status[k], chan[k], task[t].res,
                                                ReceiverCount(k))
       IN IF k = "polling" /\ "wallet_polling_status" \in poisoned
          THEN /\ task' = [task EXCEPT ![t] = [@ EXCEPT !.pc = "panicked"]]
               /\ UNCHANGED <<status, chan>>
          ELSE /\ status' = [status EXCEPT ![k] = p.status]
               /\ chan' = [chan EXCEPT ![k] = p.msgs]
               /\ task' = [task EXCEPT ![t] = Returned(t, task[t].res)]
    /\ header_cache' = IF header_cache = t THEN Nobody ELSE header_cache
    /\ UNCHANGED <<backend, fee_estimator, interval, debug_assertions, poisoned, drv, node_metrics, now,
                   stop_signal, electrum_runtime_status, kv_store, best_block, archival_heights,
                   monitors, latest_chain_tip, chain_listeners, tx_broadcaster>>


(***************************************************************************)
(* periodically_archive_fully_resolved_monitors                            *)
(***************************************************************************)
\* An archival gate that opens one block late.
should_archive_late(metrics, cur_height) ==
    \/ metrics.latest_channel_monitor_archival_height = NoHeight
    \/ cur_height > metrics.latest_channel_monitor_archival_height
                      + RESOLVED_CHANNEL_MONITOR_ARCHIVAL_INTERVAL

\* should_archive: no archival height yet, or the interval has passed.
should_archive(metrics, cur_height) ==
    \/ metrics.latest_channel_monitor_archival_height = NoHeight
    \/ cur_height >= metrics.latest_channel_monitor_archival_height
                       + RESOLVED_CHANNEL_MONITOR_ARCHIVAL_INTERVAL

\* An archival that records the current height whenever it is called.
archive_unconditionally(metrics, cur_height) ==
    [metrics EXCEPT !.latest_channel_monitor_archival_height = cur_height]

\* The metrics after the call.
periodically_archive_fully_resolved_monitors(metrics, cur_height) ==
    IF should_archive(metrics, cur_height)
    THEN [metrics EXCEPT !.latest_channel_monitor_archival_height = cur_height]
    ELSE metrics

(***************************************************************************)
(* sync_lightning_wallet (Esplora and Electrum)                            *)
(***************************************************************************)
sync_lightning_wallet_begin(t) ==
    /\ backend \in {"Esplora", "Electrum"}
    /\ IF backend = "Electrum" /\ ~ElectrumClient
       THEN /\ task' = [task EXCEPT ![t] =
                   ElectrumNoClient("sync_lightning_wallet", "TxSyncFailed")]
            /\ UNCHANGED status
       ELSE LET r == register_or_subscribe_pending_sync(status["lightning"],
                                                        FreshChannel("lightning")) IN
            /\ status' = [status EXCEPT !["lightning"] = r.status]
            /\ IF r.receiver # 0
               THEN task' = [task EXCEPT ![t] =
                           Subscribed("sync_lightning_wallet", r.receiver)]
               ELSE task' = [task EXCEPT ![t] =
                           [pc |-> "await_sync", op |-> "sync_lightning_wallet",
                            ch |-> r.status.ch, owner |-> TRUE, res |-> "none",
                            mode |-> "-"]]
    /\ UNCHANGED <<backend, fee_estimator, debug_assertions, poisoned, chan, node_metrics, now,
                   stop_signal, electrum_runtime_status, kv_store,
                   chain_state, tx_broadcaster>>

\* What tx_sync.sync(confirmables) under its timeout, or
\* electrum_client.sync_confirmables(confirmables), resolves to.
LightningOutcomes == {"ok", "failed", "timeout"}

\* A mapping that makes a success of every failure.
tx_sync_error_ok(outcome) == "Ok"

\* The Err arms of the lightning sync: the elapsed timeout is TxSyncTimeout,
\* an error of the sync is e.into().
tx_sync_error(outcome) ==
    IF outcome = "timeout" THEN "TxSyncTimeout" ELSE "TxSyncFailed"

\* The sync has resolved. On success the confirmables are at the best block
\* of the block source; then the timestamp and write_node_metrics, whose
\* failure leaves sync_lightning_wallet through `?`, before the result is
\* propagated.
sync_lightning_wallet_finish(t) ==
    /\ task[t].pc = "await_sync"
    /\ task[t].op = "sync_lightning_wallet"
    /\ \E outcome \in LightningOutcomes, write_ok \in BOOLEAN,
          unix_time_secs_opt \in UnixTimeSecsOpt :
         IF outcome = "ok"
         THEN /\ best_block' = [best_block EXCEPT
                     !["channel_manager"] = best_block["block_source"],
                     !["output_sweeper"] = best_block["block_source"]]
              /\ now' = unix_time_secs_opt
              /\ node_metrics' = [node_metrics EXCEPT
                     !.latest_lightning_wallet_sync_timestamp = unix_time_secs_opt]
              /\ kv_store' = write_node_metrics(write_ok)
              /\ task' = [task EXCEPT ![t] =
                     IF write_ok
                     THEN [@ EXCEPT !.pc = "archive"]
                     ELSE [@ EXCEPT !.pc = "returned", !.res = "PersistenceFailed"]]
         ELSE /\ write_ok /\ unix_time_secs_opt = now
              /\ task' = [task EXCEPT ![t] = [@ EXCEPT !.pc = "publish", !.res =
                     tx_sync_error(outcome)]]
              /\ UNCHANGED <<node_metrics, kv_store, now, best_block>>
    /\ UNCHANGED <<backend, fee_estimator, interval, debug_assertions, status, poisoned, chan, drv,
                   stop_signal, electrum_runtime_status, monitors,
                   latest_chain_tip, header_cache, chain_listeners,
                   archival_heights, tx_broadcaster>>

\* periodically_archive_fully_resolved_monitors(..)? under the write lock of
\* the metrics: a failure of its write_node_metrics leaves
\* sync_lightning_wallet through `?` as well.
sync_lightning_wallet_archive(t) ==
    /\ task[t].pc = "archive"
    /\ LET cur_height == best_block["channel_manager"].height
           archive == should_archive(node_metrics, cur_height)
       IN \E write_ok \in BOOLEAN :
            /\ ~archive => write_ok
            /\ node_metrics' =
                   periodically_archive_fully_resolved_monitors(node_metrics, cur_height)
            /\ archival_heights' = IF archive THEN Append(archival_heights, cur_height)
                                   ELSE archival_heights
            /\ kv_store' = IF archive THEN write_node_metrics(write_ok) ELSE kv_store
            /\ task' = [task EXCEPT ![t] =
                   IF write_ok
                   THEN [@ EXCEPT !.pc = "publish", !.res = "Ok"]
                   ELSE [@ EXCEPT !.pc = "returned", !.res = "PersistenceFailed"]]
    /\ UNCHANGED <<backend, fee_estimator, interval, debug_assertions, status, poisoned, chan, drv, now,
                   stop_signal, electrum_runtime_status, best_block, monitors,
                   latest_chain_tip, header_cache, chain_listeners,
                   tx_broadcaster>>

(***************************************************************************)
(* update_fee_rate_estimates                                               *)
(***************************************************************************)
\* get_all_conf_targets(), in the order the updates go through them.
ConfirmationTargets == 1..MaxTargets

\* config.network
Networks == {"Bitcoin", "Testnet", "Signet", "Regtest"}

\* What a backend says of one target: an estimate in sat/vB, or nothing (no
\* entry in the estimates of Esplora, an Err of the Bitcoind client).
NoEstimate == -1
FeeEstimates == {NoEstimate, 2}

\* A map that forgets what it held on every insert.
insert_forgetful(map, target, fee_rate) == [x \in {target} |-> fee_rate]

\* HashMap::with_capacity(10) and HashMap::insert
EmptyMap == [target \in {} |-> 0]
insert(map, target, fee_rate) ==
    [x \in DOMAIN map \cup {target} |-> IF x = target THEN fee_rate ELSE map[x]]

\* The locals of a call that is not running.
NoFeeUpdate ==
    [target |-> 0, new_fee_rate_cache |-> EmptyMap, unix_time_secs_opt |-> NoTime]

\* apply_post_estimation_adjustments(target, fee_rate) is not part of the
\* chain source: the model has it lower the rate of the first target by 250
\* sat/kwu and leave the others alone.
apply_post_estimation_adjustments(target, fee_rate) ==
    IF target = 1
    THEN IF fee_rate > 250 THEN fee_rate - 250 ELSE 0
    ELSE fee_rate

\* Estimates that never count as empty.
never_empty(fee_estimates) == FALSE

\* estimates.is_empty()
is_empty(fee_estimates) ==
    \A target \in DOMAIN fee_estimates : fee_estimates[target] = NoEstimate

\* An updater that builds on the cache it finds: every rate one sat/kwu above
\* the cached one.
drifting_fee_rate_cache(fee_estimates) ==
    [target \in DOMAIN fee_estimates |->
        IF target \in DOMAIN fee_rate_cache THEN fee_rate_cache[target] + 1 ELSE 250]

\* Esplora: convert_fee_rate(num_blocks, estimates).map_or(1.0, |c| c.max(1.0))
\* sat/vB, FeeRate::from_sat_per_kwu((x * 250.0) as u64), then the adjustment,
\* for every target.
esplora_fee_rate_cache(fee_estimates) ==
    [target \in DOMAIN fee_estimates |->
        LET converted_estimate_sat_vb ==
                IF fee_estimates[target] = NoEstimate THEN 1
                ELSE IF fee_estimates[target] < 1 THEN 1
                ELSE fee_estimates[target]
        IN apply_post_estimation_adjustments(target, converted_estimate_sat_vb * 250)]

update_fee_rate_estimates_begin(t) ==
    /\ task' = [task EXCEPT ![t] =
           IF backend = "Electrum" /\ ~ElectrumClient
           THEN ElectrumNoClient("update_fee_rate_estimates", "FeerateEstimationUpdateFailed")
           ELSE [IdleTask EXCEPT !.pc = "await_fee", !.op = "update_fee_rate_estimates"]]
    /\ fee_update' = [fee_update EXCEPT ![t] =
           IF backend = "Bitcoind" THEN [NoFeeUpdate EXCEPT !.target = 1]
           ELSE NoFeeUpdate]
    /\ UNCHANGED <<backend, debug_assertions, status, poisoned, chan, node_metrics,
                   now, stop_signal, electrum_runtime_status, kv_store,
                   chain_state, tx_broadcaster, network, estimates, fee_rate_cache>>

\* A return that throws the cached fee rates away.
fee_update_returns_empty(t, res) ==
    /\ task' = [task EXCEPT ![t] = Returned(t, res)]
    /\ fee_update' = [fee_update EXCEPT ![t] = NoFeeUpdate]
    /\ fee_rate_cache' = EmptyMap
    /\ UNCHANGED now

\* The call returns before the cache is touched.
fee_update_returns(t, res) ==
    /\ task' = [task EXCEPT ![t] = Returned(t, res)]
    /\ fee_update' = [fee_update EXCEPT ![t] = NoFeeUpdate]
    /\ UNCHANGED <<now, fee_rate_cache>>

\* fee_estimator.set_fee_rate_cache(new_fee_rate_cache), and the reading of
\* the clock that follows it: the node metrics are locked only afterwards.
set_fee_rate_cache(t, new_fee_rate_cache) ==
    /\ fee_rate_cache' = new_fee_rate_cache
    /\ \E unix_time_secs_opt \in UnixTimeSecsOpt :
         /\ now' = unix_time_secs_opt
         /\ fee_update' = [fee_update EXCEPT ![t] =
                [NoFeeUpdate EXCEPT !.unix_time_secs_opt = unix_time_secs_opt]]
    /\ task' = [task EXCEPT ![t] = [@ EXCEPT !.pc = "record_fee"]]

\* Esplora and Electrum: the one fetch of the estimates has resolved. Esplora
\* on mainnet refuses an empty answer; the Electrum client hands back the
\* finished map.
update_fee_rate_estimates_finish(t) ==
    /\ task[t].pc = "await_fee"
    /\ backend # "Bitcoind"
    /\ \E outcome \in {"ok", "failed", "timeout"} :
         CASE outcome = "timeout" ->
                fee_update_returns(t, "FeerateEstimationUpdateTimeout")
           [] outcome = "failed" ->
                fee_update_returns(t, "FeerateEstimationUpdateFailed")
           [] OTHER ->
                IF backend = "Esplora" /\ is_empty(estimates) /\ network = "Bitcoin"
                THEN fee_update_returns(t, "FeerateEstimationUpdateFailed")
                ELSE set_fee_rate_cache(t, esplora_fee_rate_cache(estimates))
    /\ UNCHANGED <<backend, interval, debug_assertions, status, poisoned, chan, drv,
                   node_metrics, stop_signal, electrum_runtime_status, kv_store,
                   chain_state, tx_broadcaster, network, estimates>>

\* A Bitcoind that fails on every network as it does on mainnet.
fee_rate_strict(fee_rate_update_res, n) ==
    IF fee_rate_update_res # NoEstimate
    THEN [return |-> "-", fee_rate |-> fee_rate_update_res * 250]
    ELSE [return |-> "FeerateEstimationUpdateFailed", fee_rate |-> 0]

\* A Bitcoind that falls back to the default on every network but mainnet.
fee_rate_lenient(fee_rate_update_res, n) ==
    IF fee_rate_update_res # NoEstimate
    THEN [return |-> "-", fee_rate |-> fee_rate_update_res * 250]
    ELSE IF n = "Bitcoin"
    THEN [return |-> "FeerateEstimationUpdateFailed", fee_rate |-> 0]
    ELSE [return |-> "-", fee_rate |-> 250]

\* let fee_rate = match (fee_rate_update_res, config.network) { .. }: the
\* rate in sat/kwu, or what the function returns instead.
match_fee_rate(fee_rate_update_res, n) ==
    IF fee_rate_update_res # NoEstimate
    THEN [return |-> "-", fee_rate |-> fee_rate_update_res * 250]
    ELSE IF n = "Bitcoin"
    THEN [return |-> "FeerateEstimationUpdateFailed", fee_rate |-> 0]
    ELSE IF n = "Regtest" \/ n = "Signet"
    THEN [return |-> "-", fee_rate |-> 250]
    ELSE [return |-> "Ok", fee_rate |-> 0]

\* Bitcoind: the fetch for the next target has resolved (get_fee_rate_update!
\* and the match on its result and the network); after the last target the
\* map is swapped in.
update_fee_rate_estimates_target(t) ==
    /\ task[t].pc = "await_fee"
    /\ backend = "Bitcoind"
    /\ LET target == fee_update[t].target
           fee_rate == match_fee_rate(estimates[target], network)
           new_fee_rate_cache ==
               insert(fee_update[t].new_fee_rate_cache, target,
                      apply_post_estimation_adjustments(target, fee_rate.fee_rate))
       IN \E timed_out \in BOOLEAN :
            IF timed_out
            THEN fee_update_returns(t, "FeerateEstimationUpdateTimeout")
            ELSE IF fee_rate.return # "-"
            THEN fee_update_returns(t, fee_rate.return)
            ELSE IF target < MaxTargets
            THEN /\ fee_update' = [fee_update EXCEPT ![t] =
                        [@ EXCEPT !.target = target + 1,
                                  !.new_fee_rate_cache = new_fee_rate_cache]]
                 /\ UNCHANGED <<task, now, fee_rate_cache>>
            ELSE set_fee_rate_cache(t, new_fee_rate_cache)
    /\ UNCHANGED <<backend, interval, debug_assertions, status, poisoned, chan, drv,
                   node_metrics, stop_signal, electrum_runtime_status, kv_store,
                   chain_state, tx_broadcaster, network, estimates>>

\* node_metrics.write().unwrap(): the reading taken before the lock becomes
\* latest_fee_rate_cache_update_timestamp, and the metrics are written.
update_fee_rate_estimates_record(t) ==
    /\ task[t].pc = "record_fee"
    /\ \E write_ok \in BOOLEAN :
         /\ node_metrics' = [node_metrics EXCEPT
                !.latest_fee_rate_cache_update_timestamp =
                    fee_update[t].unix_time_secs_opt]
         /\ kv_store' = write_node_metrics(write_ok)
         /\ task' = [task EXCEPT ![t] =
                Returned(t, IF write_ok THEN "Ok" ELSE "PersistenceFailed")]
    /\ fee_update' = [fee_update EXCEPT ![t] = NoFeeUpdate]
    /\ UNCHANGED <<backend, interval, debug_assertions, status, poisoned, chan, drv, now,
                   stop_signal, electrum_runtime_status,
                   chain_state, tx_broadcaster, network, estimates, fee_rate_cache>>

\* The backend's estimate for one target changes.
fee_market_moves ==
    /\ \E target \in ConfirmationTargets, estimate \in FeeEstimates :
         /\ estimate # estimates[target]
         /\ estimates' = [estimates EXCEPT ![target] = estimate]
    /\ UNCHANGED <<backend, interval, debug_assertions, status, poisoned, chan, task, drv,
                   node_metrics, now, stop_signal, electrum_runtime_status,
                   kv_store, chain_state, tx_broadcaster, network,
                   fee_rate_cache, fee_update>>

(***************************************************************************)
(* continuously_sync_wallets, Esplora and Electrum: the tx-based sync loop *)
(***************************************************************************)
\* background_sync_config is Some: start_tx_based_sync_loop; None: return.
continuously_sync_wallets_tx ==
    /\ backend \in {"Esplora", "Electrum"}
    /\ drv.pc = "init"
    /\ \E background_sync \in BOOLEAN :
         drv' = [drv EXCEPT !.pc = IF background_sync THEN "select" ELSE "returned"]
    /\ UNCHANGED <<backend, fee_estimator, interval, debug_assertions, status, poisoned, chan, task,
                   node_metrics, now, stop_signal, electrum_runtime_status, kv_store,
                   chain_state, tx_broadcaster>>

\* The Intervals of the loop of a chain source.
Intervals(variant) ==
    IF variant = "Bitcoind"
    THEN {"chain_polling_interval", "fee_rate_update_interval"}
    ELSE {"onchain_wallet_sync_interval", "lightning_wallet_sync_interval",
          "fee_rate_update_interval"}

\* Interval seconds taken from the configuration as they are.
interval_secs_unclamped(configured) == configured

\* background_sync_config.<..>_interval_secs.max(WALLET_SYNC_INTERVAL_MINIMUM_SECS)
interval_secs(configured) ==
    IF configured >= WALLET_SYNC_INTERVAL_MINIMUM_SECS THEN configured
    ELSE WALLET_SYNC_INTERVAL_MINIMUM_SECS

\* The period of an Interval built for chain source `variant` from the
\* seconds `secs` of the BackgroundSyncConfig: CHAIN_POLLING_INTERVAL_SECS for
\* both Intervals of Bitcoind, the clamped seconds for the others.
PeriodOf(variant, secs, ticker) ==
    IF variant = "Bitcoind" \/ ticker = "chain_polling_interval"
    THEN CHAIN_POLLING_INTERVAL_SECS
    ELSE interval_secs(secs[ticker])

Period(ticker) == PeriodOf(backend, interval.secs, ticker)

\* MissedTickBehavior::Burst: the deadline after a tick that fired `late`
\* seconds after its own, in seconds from now.
next_timeout_burst(late, period) == period - late

\* MissedTickBehavior::Skip: the next multiple of the period after now.
next_timeout(late, period) == period - (late % period)

\* An Interval that is never reset: its first tick is due at once.
interval_without_reset(ticker, period) == 0

\* tokio::time::interval(period): the first tick is due at once, after
\* reset() a period later. The deadline of an Interval counts the seconds
\* from now.
tokio_time_interval(ticker, period) ==
    IF ticker = "fee_rate_update_interval" THEN period ELSE 0

\* A select! that is polled while a work item of the loop is under way.
select_any_time == drv.pc = "select"

AtSelect == drv.pc = "select" /\ task[Driver].pc = "idle"

\* _ = stop_sync_receiver.changed() => return
sync_loop_stop ==
    /\ AtSelect
    /\ stop_signal
    /\ drv' = [drv EXCEPT !.pc = "returned"]
    /\ UNCHANGED <<backend, fee_estimator, interval, debug_assertions, status, poisoned, chan, task,
                   node_metrics, now, stop_signal, electrum_runtime_status, kv_store,
                   chain_state, tx_broadcaster>>

\* _ = onchain_wallet_sync_interval.tick() => sync_onchain_wallet().await
tx_loop_onchain_tick ==
    /\ AtSelect
    /\ sync_onchain_wallet_begin(Driver)
    /\ UNCHANGED <<drv, interval>>

\* _ = lightning_wallet_sync_interval.tick() => sync_lightning_wallet(..).await
tx_loop_lightning_tick ==
    /\ AtSelect
    /\ sync_lightning_wallet_begin(Driver)
    /\ UNCHANGED <<drv, interval>>

\* _ = fee_rate_update_interval.tick() => update_fee_rate_estimates().await
sync_loop_fee_tick ==
    /\ AtSelect
    /\ update_fee_rate_estimates_begin(Driver)
    /\ UNCHANGED <<drv, interval>>

\* let _ = <the work item>.await: back to the select
sync_loop_next ==
    /\ drv.pc = "select"
    /\ task[Driver].pc = "returned"
    /\ task' = [task EXCEPT ![Driver] = IdleTask]
    /\ UNCHANGED <<backend, fee_estimator, interval, debug_assertions, status, poisoned, chan, drv,
                   node_metrics, now, stop_signal, electrum_runtime_status, kv_store,
                   chain_state, tx_broadcaster>>

(***************************************************************************)
(* continuously_sync_wallets, Bitcoind: registration, the initial catch-up *)
(* with its backoff, and the polling loop                                  *)
(***************************************************************************)
\* wallet_polling_status.lock().unwrap().register_or_subscribe_pending_sync():
\* a receiver coming back is only debug_assert!ed against, with the guard of
\* the status mutex alive. A release build drops the receiver and goes on.
continuously_sync_wallets_bitcoind ==
    /\ backend = "Bitcoind"
    /\ drv.pc = "init"
    /\ LET r == register_or_subscribe_pending_sync(status["polling"],
                                                   FreshChannel("polling"))
       IN IF r.receiver # 0 /\ debug_assertions
          THEN /\ poisoned' = poisoned \cup {"wallet_polling_status"}
               /\ drv' = [drv EXCEPT !.pc = "panicked"]
               /\ UNCHANGED status
          ELSE /\ status' = [status EXCEPT !["polling"] = r.status]
               /\ drv' = [drv EXCEPT !.pc = "catch_up",
                                     !.backoff = CHAIN_POLLING_INTERVAL_SECS]
               /\ UNCHANGED poisoned
    /\ UNCHANGED <<backend, fee_estimator, interval, debug_assertions, chan, task, node_metrics, now,
                   stop_signal, electrum_runtime_status, kv_store,
                   chain_state, tx_broadcaster>>

\* The best blocks of the monitors get_monitor returns, in list order.
RECURSIVE FetchedMonitors(_)
FetchedMonitors(ms) ==
    IF ms = <<>> THEN <<>>
    ELSE (IF Head(ms).get_monitor THEN <<Head(ms).best_block>> ELSE <<>>)
         \o FetchedMonitors(Tail(ms))

\* A min_by_key that returns the last of several minimal elements.
RECURSIVE min_by_key_last(_)
min_by_key_last(blocks) ==
    IF Len(blocks) = 1 THEN Head(blocks)
    ELSE LET m == min_by_key_last(Tail(blocks))
         IN IF Head(blocks).height < m.height THEN Head(blocks) ELSE m

\* Iterator::min_by_key(|b| b.height) of a non-empty sequence: of several
\* minimal elements the first one.
RECURSIVE min_by_key(_)
min_by_key(blocks) ==
    IF Len(blocks) = 1 THEN Head(blocks)
    ELSE LET m == min_by_key(Tail(blocks))
         IN IF Head(blocks).height <= m.height THEN Head(blocks) ELSE m

Listener(x, l) == [block_hash |-> x, listener |-> l]

\* The chain_listeners vector one catch-up attempt builds.
ChainListeners(bb, ms) ==
    << Listener(bb["onchain_wallet"].block_hash, "onchain_wallet"),
       Listener(bb["channel_manager"].block_hash, "channel_manager"),
       Listener(bb["output_sweeper"].block_hash, "output_sweeper") >>
    \o (IF FetchedMonitors(ms) # <<>>
        THEN << Listener(min_by_key(FetchedMonitors(ms)).block_hash, "chain_monitor") >>
        ELSE <<>>)

\* The head of the catch-up loop: the listeners, header_cache.lock().await,
\* and the call of synchronize_listeners.
catch_up_synchronize_listeners ==
    /\ drv.pc = "catch_up"
    /\ header_cache = Nobody
    /\ header_cache' = Driver
    /\ chain_listeners' = ChainListeners(best_block, monitors)
    /\ drv' = [drv EXCEPT !.pc = "synchronize_listeners"]
    /\ UNCHANGED <<backend, fee_estimator, interval, debug_assertions, status, poisoned, chan, task,
                   node_metrics, now, stop_signal, electrum_runtime_status,
                   kv_store, best_block, archival_heights, monitors, latest_chain_tip,
                   tx_broadcaster>>

Tips == 1..MaxTip

\* The larger of two numbers.
Max(a, b) == IF a >= b THEN a ELSE b

\* std::cmp::min
Min(a, b) == IF a <= b THEN a ELSE b

\* synchronize_listeners has resolved. Ok(chain_tip): the tip, both sync
\* timestamps, write_node_metrics whose error is only logged, break (backoff
\* is never read again). Err: a sleep, with the guard of the header cache
\* still alive.
catch_up_result ==
    /\ drv.pc = "synchronize_listeners"
    /\ \/ \E chain_tip \in Tips, write_ok \in BOOLEAN,
             unix_time_secs_opt \in UnixTimeSecsOpt :
            /\ latest_chain_tip' = chain_tip
            /\ now' = unix_time_secs_opt
            /\ node_metrics' = [node_metrics EXCEPT
                   !.latest_lightning_wallet_sync_timestamp = unix_time_secs_opt,
                   !.latest_onchain_wallet_sync_timestamp = unix_time_secs_opt]
            /\ kv_store' = write_node_metrics(write_ok)
            /\ header_cache' = Nobody
            /\ drv' = [drv EXCEPT !.pc = "propagate", !.backoff = 0,
                                  !.transient = 0]
       \/ \E kind \in {"Transient", "Persistent"} :
            /\ kind = "Transient" => drv.transient < MaxTransient
            /\ drv' = [drv EXCEPT
                   !.pc = "sleep",
                   !.sleep = IF kind = "Transient" THEN drv.backoff
                             ELSE MAX_BACKOFF_SECS,
                   !.backoff = IF kind = "Transient"
                               THEN Min(drv.backoff * 2, MAX_BACKOFF_SECS)
                               ELSE drv.backoff,
                   !.transient = IF kind = "Transient" THEN @ + 1 ELSE @]
            /\ UNCHANGED <<latest_chain_tip, now, node_metrics, kv_store,
                           header_cache>>
    /\ UNCHANGED <<backend, fee_estimator, interval, debug_assertions, status, poisoned, chan, task,
                   stop_signal, electrum_runtime_status, best_block, archival_heights, monitors,
                   chain_listeners, tx_broadcaster>>

\* tokio::time::sleep(..).await is over: the end of the loop body drops the
\* guard of the header cache, and the loop goes round.
catch_up_retry ==
    /\ drv.pc = "sleep"
    /\ drv' = [drv EXCEPT !.pc = "catch_up", !.sleep = 0]
    /\ header_cache' = Nobody
    /\ chain_listeners' = <<>>
    /\ UNCHANGED <<backend, fee_estimator, interval, debug_assertions, status, poisoned, chan, task,
                   node_metrics, now, stop_signal, electrum_runtime_status,
                   kv_store, best_block, archival_heights, monitors, latest_chain_tip,
                   tx_broadcaster>>

\* wallet_polling_status.lock().unwrap().propagate_result_to_subscribers(Ok(()))
\* and the two intervals: the polling loop begins.
catch_up_propagate ==
    /\ drv.pc = "propagate"
    /\ LET p == propagate_result_to_subscribers(status["polling"], chan["polling"],
                                                "Ok", ReceiverCount("polling"))
       IN /\ status' = [status EXCEPT !["polling"] = p.status]
          /\ chan' = [chan EXCEPT !["polling"] = p.msgs]
    /\ drv' = [drv EXCEPT !.pc = "select"]
    /\ UNCHANGED <<backend, fee_estimator, interval, debug_assertions, poisoned, task, node_metrics, now,
                   stop_signal, electrum_runtime_status, kv_store,
                   chain_state, tx_broadcaster>>

(***************************************************************************)
(* poll_and_update_listeners (Bitcoind)                                    *)
(***************************************************************************)
Panicked(op) == [IdleTask EXCEPT !.pc = "panicked", !.op = op]

\* Registration with wallet_polling_status, then latest_chain_tip: a known
\* tip goes on to the header cache, none asks validate_best_block_header.
poll_and_update_listeners_begin(t) ==
    /\ backend = "Bitcoind"
    /\ IF "wallet_polling_status" \in poisoned
       THEN /\ task' = [task EXCEPT ![t] = Panicked("poll_and_update_listeners")]
            /\ UNCHANGED status
       ELSE LET r == register_or_subscribe_pending_sync(status["polling"],
                                                        FreshChannel("polling"))
            IN /\ status' = [status EXCEPT !["polling"] = r.status]
               /\ task' = [task EXCEPT ![t] =
                      IF r.receiver # 0
                      THEN Subscribed("poll_and_update_listeners", r.receiver)
                      ELSE [IdleTask EXCEPT
                               !.pc = IF latest_chain_tip # NoTip
                                      THEN "lock_header_cache"
                                      ELSE "await_validate",
                               !.op = "poll_and_update_listeners",
                               !.ch = r.status.ch,
                               !.owner = TRUE]]
    /\ UNCHANGED <<backend, fee_estimator, debug_assertions, poisoned, chan, node_metrics, now,
                   stop_signal, electrum_runtime_status, kv_store,
                   chain_state, tx_broadcaster>>

\* validate_best_block_header has resolved.
poll_validate_best_block_header(t) ==
    /\ task[t].pc = "await_validate"
    /\ \/ \E tip \in Tips :
            /\ latest_chain_tip' = tip
            /\ task' = [task EXCEPT ![t] = [@ EXCEPT !.pc = "lock_header_cache"]]
       \/ /\ task' = [task EXCEPT ![t] = [@ EXCEPT !.pc = "publish",
                                                    !.res = "TxSyncFailed"]]
          /\ UNCHANGED latest_chain_tip
    /\ UNCHANGED <<backend, fee_estimator, interval, debug_assertions, status, poisoned, chan, drv,
                   node_metrics, now, stop_signal, electrum_runtime_status,
                   kv_store, best_block, archival_heights, monitors, header_cache,
                   chain_listeners, tx_broadcaster>>

\* header_cache.lock().await, and the call of poll_best_tip.
poll_lock_header_cache(t) ==
    /\ task[t].pc = "lock_header_cache"
    /\ header_cache = Nobody
    /\ header_cache' = t
    /\ task' = [task EXCEPT ![t] = [@ EXCEPT !.pc = "await_poll_best_tip"]]
    /\ UNCHANGED <<backend, fee_estimator, interval, debug_assertions, status, poisoned, chan, drv,
                   node_metrics, now, stop_signal, electrum_runtime_status,
                   kv_store, best_block, archival_heights, monitors, latest_chain_tip,
                   chain_listeners, tx_broadcaster>>

\* A match that forgets the stored tip when no better one was connected.
match_forgets_tip(tip_opt, chain_tip, tip, blocks_connected) ==
    IF chain_tip = "Better" /\ blocks_connected THEN tip ELSE NoTip

\* match spv_client.poll_best_tip().await { Ok((ChainTip::Better(tip), true))
\* => *latest_chain_tip.write().unwrap() = Some(tip), Ok(_) => {} }: the
\* latest_chain_tip after an Ok.
match_poll_best_tip(tip_opt, chain_tip, tip, blocks_connected) ==
    IF chain_tip = "Better" /\ blocks_connected THEN tip ELSE tip_opt

\* poll_best_tip has resolved: only (ChainTip::Better(tip), true) stores a tip.
poll_best_tip(t) ==
    /\ task[t].pc = "await_poll_best_tip"
    /\ \/ \E chain_tip \in {"Common", "Better", "Worse"}, tip \in Tips,
             blocks_connected \in BOOLEAN :
            /\ chain_tip = "Common" => ~blocks_connected
            /\ latest_chain_tip' = match_poll_best_tip(latest_chain_tip, chain_tip,
                                                       tip, blocks_connected)
            /\ task' = [task EXCEPT ![t] = [@ EXCEPT !.pc = "await_mempool"]]
       \/ /\ task' = [task EXCEPT ![t] = [@ EXCEPT !.pc = "publish",
                                                    !.res = "TxSyncFailed"]]
          /\ UNCHANGED latest_chain_tip
    /\ UNCHANGED <<backend, fee_estimator, interval, debug_assertions, status, poisoned, chan, drv,
                   node_metrics, now, stop_signal, electrum_runtime_status,
                   kv_store, best_block, archival_heights, monitors, header_cache,
                   chain_listeners, tx_broadcaster>>

\* get_updated_mempool_transactions has resolved. Ok: apply_mempool_txs whose
\* error is only logged, both sync timestamps, write_node_metrics.
poll_mempool(t) ==
    /\ task[t].pc = "await_mempool"
    /\ \/ \E write_ok \in BOOLEAN, unix_time_secs_opt \in UnixTimeSecsOpt :
            /\ now' = unix_time_secs_opt
            /\ node_metrics' = [node_metrics EXCEPT
                   !.latest_lightning_wallet_sync_timestamp = unix_time_secs_opt,
                   !.latest_onchain_wallet_sync_timestamp = unix_time_secs_opt]
            /\ kv_store' = write_node_metrics(write_ok)
            /\ task' = [task EXCEPT ![t] = [@ EXCEPT
                   !.pc = "publish",
                   !.res = IF write_ok THEN "Ok" ELSE "PersistenceFailed"]]
       \/ /\ task' = [task EXCEPT ![t] = [@ EXCEPT !.pc = "publish",
                                                    !.res = "TxSyncFailed"]]
          /\ UNCHANGED <<now, node_metrics, kv_store>>
    /\ UNCHANGED <<backend, fee_estimator, interval, debug_assertions, status, poisoned, chan, drv,
                   stop_signal, electrum_runtime_status,
                   chain_state, tx_broadcaster>>

\* _ = chain_polling_interval.tick() => poll_and_update_listeners(..).await
bitcoind_loop_poll_tick ==
    /\ AtSelect
    /\ poll_and_update_listeners_begin(Driver)
    /\ UNCHANGED <<drv, interval>>

\* A manual poll_and_update_listeners call (Node::sync_wallets).
node_poll_and_update_listeners(t) ==
    /\ Free(t)
    /\ poll_and_update_listeners_begin(t)
    /\ UNCHANGED <<drv, interval>>


(***************************************************************************)
(* The loops with the time of their Intervals                              *)
(***************************************************************************)
\* A branch of the select! whose Interval is due: tick() resolves, the
\* Interval moves its deadline and the branch starts its work item.
interval_tick(ticker) ==
    /\ AtSelect
    /\ ticker \in Intervals(backend)
    /\ interval.deadline[ticker] <= 0
    /\ interval' = [interval EXCEPT
           !.deadline = [@ EXCEPT ![ticker] = next_timeout(-@, Period(ticker))],
           !.missed = (-interval.deadline[ticker]) \div Period(ticker)]
    /\ CASE ticker = "onchain_wallet_sync_interval" -> sync_onchain_wallet_begin(Driver)
         [] ticker = "lightning_wallet_sync_interval" -> sync_lightning_wallet_begin(Driver)
         [] ticker = "fee_rate_update_interval" -> update_fee_rate_estimates_begin(Driver)
         [] ticker = "chain_polling_interval" -> poll_and_update_listeners_begin(Driver)
    /\ UNCHANGED drv

\* A second goes by while the loop runs, whether it waits in the select! or
\* for its work item.
time_passes ==
    /\ drv.pc = "select"
    /\ \A ticker \in Intervals(backend) : interval.deadline[ticker] > -MaxLate
    /\ interval' = [interval EXCEPT !.deadline =
           [ticker \in DOMAIN @ |->
               IF ticker \in Intervals(backend) THEN @[ticker] - 1 ELSE @[ticker]]]
    /\ UNCHANGED <<backend, debug_assertions, status, poisoned, chan, task, drv,
                   node_metrics, now, stop_signal, electrum_runtime_status,
                   kv_store, chain_state, tx_broadcaster, fee_estimator>>

(***************************************************************************)
(* The node around the chain source                                        *)
(***************************************************************************)
\* A manual sync_onchain_wallet call (Node::sync_wallets).
node_sync_onchain_wallet(t) ==
    /\ Free(t)
    /\ sync_onchain_wallet_begin(t)
    /\ UNCHANGED <<drv, interval>>

\* A manual sync_lightning_wallet call (Node::sync_wallets).
node_sync_lightning_wallet(t) ==
    /\ Free(t)
    /\ sync_lightning_wallet_begin(t)
    /\ UNCHANGED <<drv, interval>>

\* A manual update_fee_rate_estimates call (Node::sync_wallets).
node_update_fee_rate_estimates(t) ==
    /\ Free(t)
    /\ update_fee_rate_estimates_begin(t)
    /\ UNCHANGED <<drv, interval>>

\* The caller has its result; it may call again.
node_call_returns(t) ==
    /\ t \in Callers
    /\ task[t].pc = "returned"
    /\ task' = [task EXCEPT ![t] = IdleTask]
    /\ UNCHANGED <<backend, fee_estimator, interval, debug_assertions, status, poisoned, chan, drv,
                   node_metrics, now, stop_signal, electrum_runtime_status, kv_store,
                   chain_state, tx_broadcaster>>

\* The node sends on the stop channel the loops watch.
node_stop_signal ==
    /\ ~stop_signal
    /\ stop_signal' = TRUE
    /\ UNCHANGED <<backend, fee_estimator, interval, debug_assertions, status, poisoned, chan, task, drv,
                   node_metrics, now, electrum_runtime_status,
                   kv_store,
                   chain_state, tx_broadcaster>>

\* ChainSource::start: electrum_runtime_status.write().unwrap().start(..).
\* Started already: debug_assert!(false) panics under the write lock.
ChainSource_start ==
    /\ backend = "Electrum"
    /\ "electrum_runtime_status" \notin poisoned
    /\ RwLock_write(electrum_runtime_status)
    /\ \E client_ok \in BOOLEAN :
         IF electrum_runtime_status.state = "Started" /\ debug_assertions
         THEN /\ client_ok
              /\ poisoned' = poisoned \cup {"electrum_runtime_status"}
              /\ UNCHANGED electrum_runtime_status
         ELSE /\ electrum_runtime_status' =
                     ElectrumRuntimeStatus_start(electrum_runtime_status, client_ok)
              /\ UNCHANGED poisoned
    /\ UNCHANGED <<backend, fee_estimator, interval, debug_assertions, status, chan, task, drv, node_metrics,
                   now, stop_signal, kv_store,
                   chain_state, tx_broadcaster>>

\* ChainSource::stop: electrum_runtime_status.write().unwrap().stop().
ChainSource_stop ==
    /\ backend = "Electrum"
    /\ "electrum_runtime_status" \notin poisoned
    /\ RwLock_write(electrum_runtime_status)
    /\ electrum_runtime_status' = ElectrumRuntimeStatus_stop(electrum_runtime_status)
    /\ UNCHANGED <<backend, fee_estimator, interval, debug_assertions, status, poisoned, chan, task, drv,
                   node_metrics, now, stop_signal, kv_store,
                   chain_state, tx_broadcaster>>

\* ChainSource::start up to the replay: the write guard is taken and
\* ElectrumRuntimeClient::new(..)? has returned; the guard is held from here
\* until start() returns. A failed client and a status that is Started leave
\* as ChainSource_start leaves.
ChainSource_start_write ==
    /\ backend = "Electrum"
    /\ "electrum_runtime_status" \notin poisoned
    /\ RwLock_write(electrum_runtime_status)
    /\ \E client_ok \in BOOLEAN :
         IF electrum_runtime_status.state = "Stopped" /\ client_ok
         THEN /\ electrum_runtime_status' =
                     [electrum_runtime_status EXCEPT !.guard = "start"]
              /\ UNCHANGED poisoned
         ELSE /\ electrum_runtime_status.state = "Started"
              /\ debug_assertions
              /\ poisoned' = poisoned \cup {"electrum_runtime_status"}
              /\ UNCHANGED electrum_runtime_status
    /\ UNCHANGED <<backend, fee_estimator, interval, debug_assertions, status, chan, task, drv, node_metrics,
                   now, stop_signal, kv_store,
                   chain_state, tx_broadcaster>>

\* One step of the replay under the guard: the next pending tx goes to the
\* client, after the txs the next pending output, and after the outputs
\* *self = Self::Started(client) and the guard is dropped.
ElectrumRuntimeStatus_start_step ==
    /\ backend = "Electrum"
    /\ electrum_runtime_status.guard = "start"
    /\ electrum_runtime_status' =
         IF electrum_runtime_status.pending_registered_txs # <<>>
         THEN [electrum_runtime_status EXCEPT
                  !.pending_registered_txs = Tail(@),
                  !.client = Append(@, TxEntry(Head(
                                 electrum_runtime_status.pending_registered_txs))),
                  !.replayed = @ + 1]
         ELSE IF electrum_runtime_status.pending_registered_outputs # <<>>
         THEN [electrum_runtime_status EXCEPT
                  !.pending_registered_outputs = Tail(@),
                  !.client = Append(@, OutputEntry(Head(
                                 electrum_runtime_status.pending_registered_outputs))),
                  !.replayed = @ + 1]
         ELSE [electrum_runtime_status EXCEPT !.state = "Started",
                                              !.guard = "free"]
    /\ UNCHANGED <<backend, fee_estimator, interval, debug_assertions, status, poisoned, chan, task, drv,
                   node_metrics, now, stop_signal, kv_store,
                   chain_state, tx_broadcaster>>

(***************************************************************************)
(* process_broadcast_queue                                                 *)
(***************************************************************************)
\* The call: Electrum asks for its client first and returns without one
\* (debug_assert!(false) in a debug build), then get_broadcast_queue().
process_broadcast_queue ==
    /\ pump.pc = "init"
    /\ pump' = [pump EXCEPT !.pc =
                    IF backend = "Electrum" /\ ~ElectrumClient
                    THEN IF "electrum_runtime_status" \in poisoned \/ debug_assertions
                         THEN "panicked" ELSE "returned"
                    ELSE "recv"]
    /\ UNCHANGED <<backend, fee_estimator, interval, debug_assertions, status, poisoned, chan, task, drv,
                   node_metrics, now, stop_signal, electrum_runtime_status,
                   kv_store, chain_state, broadcast_queue>>

\* receiver.recv().await: the next package, or None once the channel is
\* closed and empty, which ends the while let.
process_broadcast_queue_recv ==
    /\ pump.pc = "recv"
    /\ IF broadcast_queue.packages # <<>>
       THEN /\ pump' = [pump EXCEPT !.pc = "broadcast",
                                     !.package = Head(broadcast_queue.packages)]
            /\ broadcast_queue' = [broadcast_queue EXCEPT !.packages = Tail(@)]
       ELSE /\ ~broadcast_queue.open
            /\ pump' = [pump EXCEPT !.pc = "returned"]
            /\ UNCHANGED broadcast_queue
    /\ UNCHANGED <<backend, fee_estimator, interval, debug_assertions, status, poisoned, chan, task, drv,
                   node_metrics, now, stop_signal, electrum_runtime_status,
                   kv_store, chain_state>>

\* A consumer that gives up the rest of a package when a broadcast fails.
for_tx_until_error(package, outcome) ==
    IF outcome = "ok" THEN Tail(package) ELSE <<>>

\* for tx in &next_package: what is left of the package after the broadcast
\* of its first transaction, whatever came of it.
for_tx(package, outcome) == Tail(package)

\* The broadcast of the next transaction of the package has resolved: Ok,
\* an Err of the backend or the timeout, each of them only logged (the
\* Bitcoind client is taken to answer Ok with the txid it was given). After
\* the last transaction the loop receives again.
process_broadcast_queue_tx ==
    /\ pump.pc = "broadcast"
    /\ \E outcome \in {"ok", "err", "timeout"} :
         LET rest == for_tx(pump.package, outcome) IN
         pump' = [pc |-> IF rest # <<>> THEN "broadcast" ELSE "recv",
                  package |-> rest,
                  attempts |-> Append(pump.attempts, <<Head(pump.package), outcome>>)]
    /\ UNCHANGED <<backend, fee_estimator, interval, debug_assertions, status, poisoned, chan, task, drv,
                   node_metrics, now, stop_signal, electrum_runtime_status,
                   kv_store, chain_state, broadcast_queue>>

\* The broadcaster queues a package.
broadcast_transactions ==
    /\ broadcast_queue.open
    /\ Len(broadcast_queue.packages) < MaxQueue
    /\ Len(broadcast_queue.sent) < MaxSent
    /\ \E package \in Packages :
         broadcast_queue' = [broadcast_queue EXCEPT !.packages = Append(@, package),
                                                    !.sent = @ \o package]
    /\ UNCHANGED <<backend, fee_estimator, interval, debug_assertions, status, poisoned, chan, task, drv,
                   node_metrics, now, stop_signal, electrum_runtime_status,
                   kv_store, chain_state, pump>>

\* The last sender of the queue is dropped.
broadcaster_dropped ==
    /\ broadcast_queue.open
    /\ broadcast_queue' = [broadcast_queue EXCEPT !.open = FALSE]
    /\ UNCHANGED <<backend, fee_estimator, interval, debug_assertions, status, poisoned, chan, task, drv,
                   node_metrics, now, stop_signal, electrum_runtime_status,
                   kv_store, chain_state, pump>>

(***************************************************************************)
(* The chain                                                               *)
(***************************************************************************)
\* The block source learns of a new block.
block_mined ==
    /\ best_block["block_source"].height < MaxHeight
    /\ best_block' = [best_block EXCEPT
           !["block_source"] = BestBlock(@.height + 1, @.block_hash)]
    /\ UNCHANGED <<backend, fee_estimator, interval, debug_assertions, status, poisoned, chan, task, drv,
                   node_metrics, now, stop_signal, electrum_runtime_status,
                   kv_store, monitors, latest_chain_tip, header_cache,
                   chain_listeners, archival_heights, tx_broadcaster>>

\* The block source loses its best block to a reorganisation.
block_disconnected ==
    /\ best_block["block_source"].height > 0
    /\ best_block' = [best_block EXCEPT
           !["block_source"] = BestBlock(@.height - 1, @.block_hash)]
    /\ UNCHANGED <<backend, fee_estimator, interval, debug_assertions, status, poisoned, chan, task, drv,
                   node_metrics, now, stop_signal, electrum_runtime_status,
                   kv_store, monitors, latest_chain_tip, header_cache,
                   chain_listeners, archival_heights, tx_broadcaster>>

(***************************************************************************)
(* impl Filter for ChainSource                                             *)
(***************************************************************************)
\* What an Electrum status holds: pending registrations and those of the
\* client.
Registrations(st) ==
    Len(st.pending_registered_txs) + Len(st.pending_registered_outputs)
    + Len(st.client)

\* Filter::register_tx on Electrum:
\* electrum_runtime_status.write().unwrap().register_tx(txid, script_pubkey)
Filter_register_tx ==
    /\ backend = "Electrum"
    /\ "electrum_runtime_status" \notin poisoned
    /\ RwLock_write(electrum_runtime_status)
    /\ Registrations(electrum_runtime_status) < MaxRegistrations
    /\ \E txid \in FilterIds :
         electrum_runtime_status' =
             ElectrumRuntimeStatus_register_tx(electrum_runtime_status, txid)
    /\ UNCHANGED <<backend, fee_estimator, interval, debug_assertions, status, poisoned, chan, task, drv,
                   node_metrics, now, stop_signal, kv_store,
                   chain_state, tx_broadcaster>>

\* Filter::register_output on Electrum:
\* electrum_runtime_status.write().unwrap().register_output(output)
Filter_register_output ==
    /\ backend = "Electrum"
    /\ "electrum_runtime_status" \notin poisoned
    /\ RwLock_write(electrum_runtime_status)
    /\ Registrations(electrum_runtime_status) < MaxRegistrations
    /\ \E output \in FilterIds :
         electrum_runtime_status' =
             ElectrumRuntimeStatus_register_output(electrum_runtime_status, output)
    /\ UNCHANGED <<backend, fee_estimator, interval, debug_assertions, status, poisoned, chan, task, drv,
                   node_metrics, now, stop_signal, kv_store,
                   chain_state, tx_broadcaster>>

(***************************************************************************)
(* The initial states                                                      *)
(***************************************************************************)
\* NodeMetrics::default(), and the metrics of a node that ran before.
NodeMetrics_default ==
    [latest_onchain_wallet_sync_timestamp |-> NoTime,
     latest_lightning_wallet_sync_timestamp |-> NoTime,
     latest_fee_rate_cache_update_timestamp |-> NoTime,
     latest_channel_monitor_archival_height |-> NoHeight]

NodeMetrics_restored ==
    [latest_onchain_wallet_sync_timestamp |-> 1,
     latest_lightning_wallet_sync_timestamp |-> 1,
     latest_fee_rate_cache_update_timestamp |-> 1,
     latest_channel_monitor_archival_height |-> 0]

\* ChainSource::new_esplora, new_electrum, new_bitcoind_rpc, new_bitcoind_rest.
ChainSource_new(variants, builds) ==
    /\ backend \in variants
    /\ debug_assertions \in builds
    /\ backend = "Esplora" => ~debug_assertions \* Esplora asserts nothing
    /\ status = [k \in Kinds |-> Completed]
    /\ poisoned = {}
    /\ chan = [k \in Kinds |-> [c \in Channels |-> "none"]]
    /\ task = [t \in Tasks |-> IdleTask]
    /\ drv = [pc |-> "init", backoff |-> 0, sleep |-> 0, transient |-> 0]
    /\ node_metrics \in {NodeMetrics_default, NodeMetrics_restored}
    /\ kv_store = TRUE
    /\ now = 1
    /\ stop_signal = FALSE
    /\ electrum_runtime_status = ElectrumRuntimeStatus_new
    /\ latest_chain_tip = NoTip
    /\ header_cache = Nobody
    /\ chain_listeners = <<>>
    /\ archival_heights = <<>>
    /\ broadcast_queue = [packages |-> <<>>, open |-> TRUE, sent |-> <<>>]
    /\ pump = [pc |-> "init", package |-> <<>>, attempts |-> <<>>]

\* The BackgroundSyncConfig, each of its interval seconds one of `configured`,
\* and the Intervals the loop of the chain source builds from it. The loop
\* of Bitcoind reads no BackgroundSyncConfig, and one stands for all.
BackgroundSyncConfig_new(configured) ==
    \E secs \in [Intervals("Esplora") -> configured] :
        /\ backend = "Bitcoind"
             => \A ticker \in DOMAIN secs : \A c \in configured : secs[ticker] <= c
        /\ interval = [deadline |-> [ticker \in Intervals("Esplora") \cup Intervals("Bitcoind")
                                     |-> tokio_time_interval(ticker,
                                             PeriodOf(backend, secs, ticker))],
                    missed |-> 0,
                    secs |-> secs]

\* The network of the configuration, what the backend estimates, and the
\* OnchainFeeEstimator with nothing cached.
FeeEstimator_new(networks, fee_estimates) ==
    /\ network \in networks
    /\ estimates \in [ConfirmationTargets -> fee_estimates]
    /\ fee_rate_cache = EmptyMap
    /\ fee_update = [t \in Tasks |-> NoFeeUpdate]

\* A node without channels whose wallet, channel manager and output sweeper
\* are all at the genesis block.
Genesis ==
    /\ best_block = [l \in Listeners \cup {"block_source"} |-> BestBlock(0, 1)]
    /\ monitors = <<>>

(***************************************************************************)
(* Spec: the wallet syncs of the tx-based chain sources (Esplora,          *)
(* Electrum) with their sync loop and a manual caller; SpecFee has the    *)
(* fee updates.                                                            *)
(***************************************************************************)
Init == ChainSource_new({"Esplora", "Electrum"}, BOOLEAN) /\ Genesis
    /\ FeeEstimator_new({"Bitcoin"}, {2})
    /\ BackgroundSyncConfig_new({WALLET_SYNC_INTERVAL_MINIMUM_SECS})

Next ==
    \/ continuously_sync_wallets_tx
    \/ sync_loop_stop
    \/ tx_loop_onchain_tick
    \/ tx_loop_lightning_tick
    \/ sync_loop_next
    \/ \E t \in Callers : node_sync_onchain_wallet(t)
    \/ \E t \in Callers : node_sync_lightning_wallet(t)
    \/ \E t \in Callers : node_call_returns(t)
    \/ \E t \in Tasks : sync_onchain_wallet_finish(t)
    \/ \E t \in Tasks : sync_lightning_wallet_finish(t)
    \/ \E t \in Tasks : sync_lightning_wallet_archive(t)
    \/ \E t \in Tasks : subscriber_recv(t)
    \/ \E t \in Tasks : owner_publish(t)
    \/ node_stop_signal
    \/ ChainSource_start
    \/ ChainSource_stop

Spec == Init /\ [][Next]_vars

(***************************************************************************)
(* SpecBitcoind: the Bitcoind chain source with its driver and a manual    *)
(* caller.                                                                 *)
(***************************************************************************)
InitBitcoind == ChainSource_new({"Bitcoind"}, BOOLEAN) /\ Genesis
    /\ FeeEstimator_new({"Bitcoin"}, {2})
    /\ BackgroundSyncConfig_new({WALLET_SYNC_INTERVAL_MINIMUM_SECS})

NextBitcoind ==
    \/ continuously_sync_wallets_bitcoind
    \/ catch_up_synchronize_listeners
    \/ catch_up_result
    \/ catch_up_retry
    \/ catch_up_propagate
    \/ sync_loop_stop
    \/ bitcoind_loop_poll_tick
    \/ sync_loop_fee_tick
    \/ sync_loop_next
    \/ \E t \in Callers : node_poll_and_update_listeners(t)
    \/ \E t \in Callers : node_call_returns(t)
    \/ \E t \in Tasks : poll_validate_best_block_header(t)
    \/ \E t \in Tasks : poll_lock_header_cache(t)
    \/ \E t \in Tasks : poll_best_tip(t)
    \/ \E t \in Tasks : poll_mempool(t)
    \/ \E t \in Tasks : update_fee_rate_estimates_target(t)
    \/ \E t \in Tasks : update_fee_rate_estimates_record(t)
    \/ \E t \in Tasks : subscriber_recv(t)
    \/ \E t \in Tasks : owner_publish(t)
    \/ node_stop_signal

SpecBitcoind == InitBitcoind /\ [][NextBitcoind]_vars

(***************************************************************************)
(* SpecCatchUp: the initial catch-up of the Bitcoind driver, for a node    *)
(* with any listeners and channel monitors.                                *)
(***************************************************************************)
\* The sequences over S of length at most n.
SeqUpTo(S, n) == UNION {[1..m -> S] : m \in 0..n}

\* Any best blocks of the three listeners; any channel monitors, of which
\* get_monitor may fail to return some.
AnyListeners ==
    /\ best_block \in [Listeners \cup {"block_source"}
                          -> {BestBlock(0, x) : x \in BlockHashes}]
    /\ best_block["block_source"] = BestBlock(0, 1)
    /\ monitors \in SeqUpTo([best_block : {BestBlock(h, x) : h \in Heights,
                                                             x \in BlockHashes},
                              get_monitor : BOOLEAN], MaxMonitors)

InitCatchUp == ChainSource_new({"Bitcoind"}, {FALSE}) /\ AnyListeners
    /\ FeeEstimator_new({"Bitcoin"}, {2})
    /\ BackgroundSyncConfig_new({WALLET_SYNC_INTERVAL_MINIMUM_SECS})

NextCatchUp ==
    \/ continuously_sync_wallets_bitcoind
    \/ catch_up_synchronize_listeners
    \/ catch_up_result
    \/ catch_up_retry
    \/ catch_up_propagate
    \/ sync_loop_stop
    \/ node_stop_signal

SpecCatchUp == InitCatchUp /\ [][NextCatchUp]_vars

(***************************************************************************)
(* SpecElectrum: an Electrum chain source that is started and stopped      *)
(* while transactions and outputs are registered with it.                  *)
(***************************************************************************)
InitElectrum == ChainSource_new({"Electrum"}, BOOLEAN) /\ Genesis
    /\ FeeEstimator_new({"Bitcoin"}, {2})
    /\ BackgroundSyncConfig_new({WALLET_SYNC_INTERVAL_MINIMUM_SECS})

NextElectrum ==
    \/ Filter_register_tx
    \/ Filter_register_output
    \/ ChainSource_start
    \/ ChainSource_stop

SpecElectrum == InitElectrum /\ [][NextElectrum]_vars

(***************************************************************************)
(* SpecReplay: the same chain source with start() taken step by step, so   *)
(* that registrations and stop() may try to come in between its steps.     *)
(***************************************************************************)
NextReplay ==
    \/ Filter_register_tx
    \/ Filter_register_output
    \/ ChainSource_start_write
    \/ ElectrumRuntimeStatus_start_step
    \/ ChainSource_stop

SpecReplay == InitElectrum /\ [][NextReplay]_vars

(***************************************************************************)
(* SpecArchival: lightning wallet syncs of an Esplora chain source while   *)
(* the chain grows.                                                        *)
(***************************************************************************)
InitArchival == ChainSource_new({"Esplora"}, {FALSE}) /\ Genesis
    /\ FeeEstimator_new({"Bitcoin"}, {2})
    /\ BackgroundSyncConfig_new({WALLET_SYNC_INTERVAL_MINIMUM_SECS})

NextArchival ==
    \/ block_mined
    \/ \E t \in Callers : node_sync_lightning_wallet(t)
    \/ \E t \in Callers : node_call_returns(t)
    \/ \E t \in Tasks : sync_lightning_wallet_finish(t)
    \/ \E t \in Tasks : sync_lightning_wallet_archive(t)
    \/ \E t \in Tasks : owner_publish(t)

SpecArchival == InitArchival /\ [][NextArchival]_vars

\* SpecReorg: the same while the chain grows and shrinks.
NextReorg ==
    \/ NextArchival
    \/ block_disconnected

SpecReorg == InitArchival /\ [][NextReorg]_vars

(***************************************************************************)
(* SpecFee: the fee updates of the three chain sources, asked for by the   *)
(* tx-based sync loop and by a manual caller, while the estimates of the   *)
(* backend move.                                                           *)
(***************************************************************************)
InitFee ==
    /\ ChainSource_new({"Esplora", "Electrum", "Bitcoind"}, {FALSE}) /\ Genesis
    /\ FeeEstimator_new(Networks, FeeEstimates)
    /\ BackgroundSyncConfig_new({WALLET_SYNC_INTERVAL_MINIMUM_SECS})

NextSteadyFee ==
    \/ continuously_sync_wallets_tx
    \/ sync_loop_fee_tick
    \/ sync_loop_next
    \/ \E t \in Callers : node_update_fee_rate_estimates(t)
    \/ \E t \in Callers : node_call_returns(t)
    \/ \E t \in Tasks : update_fee_rate_estimates_finish(t)
    \/ \E t \in Tasks : update_fee_rate_estimates_target(t)
    \/ \E t \in Tasks : update_fee_rate_estimates_record(t)
    \/ ChainSource_start

NextFee ==
    \/ NextSteadyFee
    \/ fee_market_moves

SpecFee == InitFee /\ [][NextFee]_vars

\* SpecSteadyFee: the same with a backend whose estimates stay as they are,
\* estimates below 1 sat/vB among them.
InitSteadyFee ==
    /\ ChainSource_new({"Esplora", "Electrum", "Bitcoind"}, {FALSE}) /\ Genesis
    /\ FeeEstimator_new(Networks, FeeEstimates \cup {0})
    /\ BackgroundSyncConfig_new({WALLET_SYNC_INTERVAL_MINIMUM_SECS})

SpecSteadyFee == InitSteadyFee /\ [][NextSteadyFee]_vars

(***************************************************************************)
(* SpecTicks: the sync loop of Esplora and the polling loop of Bitcoind     *)
(* with the time their Intervals count, and no other caller.               *)
(***************************************************************************)
InitTicks ==
    /\ ChainSource_new({"Esplora", "Bitcoind"}, {FALSE}) /\ Genesis
    /\ FeeEstimator_new({"Bitcoin"}, {2})
    /\ BackgroundSyncConfig_new({WALLET_SYNC_INTERVAL_MINIMUM_SECS})

NextTicks ==
    \/ continuously_sync_wallets_tx
    \/ continuously_sync_wallets_bitcoind
    \/ catch_up_synchronize_listeners
    \/ catch_up_result
    \/ catch_up_retry
    \/ catch_up_propagate
    \/ \E ticker \in DOMAIN interval.deadline : interval_tick(ticker)
    \/ time_passes
    \/ sync_loop_next
    \/ sync_onchain_wallet_finish(Driver)
    \/ sync_lightning_wallet_finish(Driver)
    \/ sync_lightning_wallet_archive(Driver)
    \/ update_fee_rate_estimates_finish(Driver)
    \/ update_fee_rate_estimates_target(Driver)
    \/ update_fee_rate_estimates_record(Driver)
    \/ poll_lock_header_cache(Driver)
    \/ poll_best_tip(Driver)
    \/ poll_mempool(Driver)
    \/ owner_publish(Driver)

SpecTicks == InitTicks /\ [][NextTicks]_vars

\* SpecLoops: the same loops with a node that may signal them to stop.
NextLoops ==
    \/ NextTicks
    \/ sync_loop_stop
    \/ node_stop_signal

SpecLoops == InitTicks /\ [][NextLoops]_vars

\* SpecPeriods: the same loops under a BackgroundSyncConfig below and above
\* the minimum.
InitPeriods ==
    /\ ChainSource_new({"Esplora", "Bitcoind"}, {FALSE}) /\ Genesis
    /\ FeeEstimator_new({"Bitcoin"}, {2})
    /\ \E configured \in ConfiguredSecs : BackgroundSyncConfig_new({configured})

SpecPeriods == InitPeriods /\ [][NextTicks]_vars

(***************************************************************************)
(* FairSpecOnchain: the on-chain wallet sync of an Esplora chain source,   *)
(* where every backend call resolves and every ready task is run.          *)
(***************************************************************************)
InitOnchain == ChainSource_new({"Esplora"}, {FALSE}) /\ Genesis
    /\ FeeEstimator_new({"Bitcoin"}, {2})
    /\ BackgroundSyncConfig_new({WALLET_SYNC_INTERVAL_MINIMUM_SECS})

NextOnchain ==
    \/ continuously_sync_wallets_tx
    \/ sync_loop_stop
    \/ tx_loop_onchain_tick
    \/ sync_loop_next
    \/ \E t \in Callers : node_sync_onchain_wallet(t)
    \/ \E t \in Callers : node_call_returns(t)
    \/ \E t \in Tasks : sync_onchain_wallet_finish(t)
    \/ \E t \in Tasks : subscriber_recv(t)
    \/ \E t \in Tasks : owner_publish(t)
    \/ node_stop_signal

\* The runtime polls a task that can go on, and the sync futures are wrapped
\* in timeouts: each step of an operation that is under way is taken.
FairOnchain ==
    /\ \A t \in Tasks : WF_vars(sync_onchain_wallet_finish(t))
    /\ \A t \in Tasks : WF_vars(subscriber_recv(t))
    /\ \A t \in Tasks : WF_vars(owner_publish(t))
    /\ WF_vars(sync_loop_next)

FairSpecOnchain == InitOnchain /\ [][NextOnchain]_vars /\ FairOnchain

(***************************************************************************)
(* FairSpecDriver: the Bitcoind driver on its own, where every call        *)
(* resolves, every sleep ends and the select sees a stop signal.           *)
(***************************************************************************)
\* The driver polls only after its catch-up has stored a chain tip, so its
\* polls never ask validate_best_block_header.
InitDriver == ChainSource_new({"Bitcoind"}, {FALSE}) /\ Genesis
    /\ FeeEstimator_new({"Bitcoin"}, {2})
    /\ BackgroundSyncConfig_new({WALLET_SYNC_INTERVAL_MINIMUM_SECS})

NextDriver ==
    \/ continuously_sync_wallets_bitcoind
    \/ catch_up_synchronize_listeners
    \/ catch_up_result
    \/ catch_up_retry
    \/ catch_up_propagate
    \/ sync_loop_stop
    \/ bitcoind_loop_poll_tick
    \/ sync_loop_fee_tick
    \/ sync_loop_next
    \/ poll_lock_header_cache(Driver)
    \/ poll_best_tip(Driver)
    \/ poll_mempool(Driver)
    \/ update_fee_rate_estimates_target(Driver)
    \/ update_fee_rate_estimates_record(Driver)
    \/ owner_publish(Driver)
    \/ node_stop_signal

\* The driver's task is spawned and polled whenever it can go on; select!
\* picks among its ready branches at random, so a stop signal that stays
\* set is seen.
FairDriver ==
    /\ WF_vars(continuously_sync_wallets_bitcoind)
    /\ WF_vars(catch_up_synchronize_listeners)
    /\ WF_vars(catch_up_result)
    /\ WF_vars(catch_up_retry)
    /\ WF_vars(catch_up_propagate)
    /\ WF_vars(sync_loop_next)
    /\ WF_vars(poll_lock_header_cache(Driver))
    /\ WF_vars(poll_best_tip(Driver))
    /\ WF_vars(poll_mempool(Driver))
    /\ WF_vars(update_fee_rate_estimates_target(Driver))
    /\ WF_vars(update_fee_rate_estimates_record(Driver))
    /\ WF_vars(owner_publish(Driver))
    /\ SF_vars(sync_loop_stop)

FairSpecDriver == InitDriver /\ [][NextDriver]_vars /\ FairDriver

(***************************************************************************)
(* FairSpecBroadcast: the broadcast queue and its consumer, where the      *)
(* consumer is spawned and every broadcast resolves.                       *)
(***************************************************************************)
InitBroadcast ==
    ChainSource_new({"Esplora", "Electrum", "Bitcoind"}, BOOLEAN) /\ Genesis
    /\ FeeEstimator_new({"Bitcoin"}, {2})
    /\ BackgroundSyncConfig_new({WALLET_SYNC_INTERVAL_MINIMUM_SECS})

NextBroadcast ==
    \/ process_broadcast_queue
    \/ process_broadcast_queue_recv
    \/ process_broadcast_queue_tx
    \/ broadcast_transactions
    \/ broadcaster_dropped
    \/ ChainSource_start
    \/ node_stop_signal

FairBroadcast ==
    /\ WF_vars(process_broadcast_queue)
    /\ WF_vars(process_broadcast_queue_recv)
    /\ WF_vars(process_broadcast_queue_tx)

FairSpecBroadcast == InitBroadcast /\ [][NextBroadcast]_vars /\ FairBroadcast

(***************************************************************************)
(* SpecNotStarted: the calls into an Electrum chain source before start(), *)
(* after it and after stop(), up to the first await of each operation.     *)
(***************************************************************************)
NextNotStarted ==
    \/ \E t \in Callers : node_sync_onchain_wallet(t)
    \/ \E t \in Callers : node_sync_lightning_wallet(t)
    \/ \E t \in Callers : node_update_fee_rate_estimates(t)
    \/ \E t \in Callers : node_call_returns(t)
    \/ process_broadcast_queue
    \/ process_broadcast_queue_recv
    \/ process_broadcast_queue_tx
    \/ broadcast_transactions
    \/ ChainSource_start
    \/ ChainSource_stop

SpecNotStarted == InitElectrum /\ [][NextNotStarted]_vars

(***************************************************************************)
(* The sync coordinator                                                    *)
(***************************************************************************)
\* The initial catch-up of the Bitcoind driver is under way.
InCatchUp == drv.pc \in {"catch_up", "synchronize_listeners", "sleep", "propagate"}

\* The tasks that run the work of kind k as the owner of an episode.
Owners(k) ==
    {t \in Tasks : /\ task[t].owner
                   /\ KindOf(task[t].op) = k
                   /\ task[t].pc \notin {"idle", "returned", "panicked"}}

\* C1: single flight. Per work kind at most one owner runs the backend work
\* at any time, the initial catch-up of continuously_sync_wallets counting as
\* an owner of the polling kind. Refuted: the catch-up starts although a
\* poll_and_update_listeners owner is in flight.
C1_SingleFlight ==
    \A k \in Kinds :
        Cardinality(Owners(k)) + (IF k = "polling" /\ InCatchUp THEN 1 ELSE 0) <= 1

\* Task s subscribed to the episode task o owns.
SubscriberOf(s, o) ==
    /\ task[o].owner
    /\ ~task[s].owner
    /\ task[s].op = task[o].op
    /\ task[s].ch = task[o].ch
    /\ task[s].pc \in {"await_recv", "returned"}

\* C2: once the owner of an episode has returned a value, every subscriber of
\* the episode has returned that value or finds it on the channel. Refuted:
\* the owner returns PersistenceFailed through `?` and publishes nothing.
C2_SubscribersGetOwnersResult ==
    \A o \in Tasks, s \in Tasks :
        (SubscriberOf(s, o) /\ task[o].pc = "returned") =>
            IF task[s].pc = "returned"
            THEN task[s].res = task[o].res
            ELSE chan[KindOf(task[o].op)][task[o].ch] = task[o].res

\* C3: when an owner has returned, whatever its result, the status of its
\* kind is no longer the InProgress of its episode. Refuted: a failing
\* write_node_metrics leaves through `?` before the result is propagated.
C3_OwnerReturnLeavesCompleted ==
    \A t \in Tasks :
        (task[t].owner /\ task[t].pc = "returned") =>
            ~(/\ status[KindOf(task[t].op)].state = "InProgress"
              /\ status[KindOf(task[t].op)].ch = task[t].ch)

\* C4: a subscriber that waits on the channel of an episode eventually
\* receives. Refuted: the owner that left through `?` never sends.
C4_SubscribersEventuallyReturn ==
    \A t \in Tasks : (task[t].pc = "await_recv") ~> (task[t].pc # "await_recv")

(***************************************************************************)
(* The Electrum registration replay                                        *)
(***************************************************************************)
\* The pending registrations of st as the client must have been told them:
\* every pending tx in the order of its registration, then every pending
\* output in the order of its registration, each once.
PendingInOrder(st) ==
    [i \in 1..(Len(st.pending_registered_txs) + Len(st.pending_registered_outputs)) |->
        IF i <= Len(st.pending_registered_txs)
        THEN [filter |-> "tx", id |-> st.pending_registered_txs[i]]
        ELSE [filter |-> "output",
              id |-> st.pending_registered_outputs[i - Len(st.pending_registered_txs)]]]

\* C5: a start that takes the status from Stopped to Started has registered
\* with the new client exactly the pending txs in insertion order, then the
\* pending outputs in insertion order, and has left both queues empty.
C5_RegistrationReplay ==
    [][(/\ electrum_runtime_status.state = "Stopped"
        /\ electrum_runtime_status'.state = "Started")
       => /\ electrum_runtime_status'.client = PendingInOrder(electrum_runtime_status)
          /\ electrum_runtime_status'.pending_registered_txs = <<>>
          /\ electrum_runtime_status'.pending_registered_outputs = <<>>]_vars

\* A start has replayed two txs and then two outputs.
C5_Witness ==
    /\ electrum_runtime_status.state = "Started"
    /\ electrum_runtime_status.replayed = 4
    /\ electrum_runtime_status.client =
           <<TxEntry(2), TxEntry(1), OutputEntry(1), OutputEntry(2)>>

\* C21: the replay is atomic. While start() is under way the status is
\* still Stopped and only the replay changes it: the registrations the
\* client has been told, followed by those still pending, stay the same
\* sequence from step to step, so that no registration and no stop() comes
\* in between, nothing is appended to a queue that is being drained, and
\* every pending registration reaches the client once.
C21_ReplayAtomic ==
    [][electrum_runtime_status.guard = "start"
       => /\ electrum_runtime_status.state = "Stopped"
          /\ electrum_runtime_status'.client \o PendingInOrder(electrum_runtime_status')
               = electrum_runtime_status.client \o PendingInOrder(electrum_runtime_status)
          /\ electrum_runtime_status'.state = "Started"
               => /\ electrum_runtime_status'.pending_registered_txs = <<>>
                  /\ electrum_runtime_status'.pending_registered_outputs = <<>>]_vars

\* A replay is half way: the pending tx is with the client, the two pending
\* outputs are not yet, and the queues are as full as they get.
C21_Witness ==
    /\ electrum_runtime_status.guard = "start"
    /\ electrum_runtime_status.client = <<TxEntry(1)>>
    /\ Len(electrum_runtime_status.pending_registered_outputs) = 2
    /\ electrum_runtime_status.pending_registered_txs = <<>>

(***************************************************************************)
(* The initial catch-up of the Bitcoind driver                             *)
(***************************************************************************)
\* C6: while the initial catch-up is under way the driver runs no poll and
\* no fee update, and a poll_and_update_listeners call would subscribe: the
\* polling status is InProgress. Refuted: the owner that was in flight when
\* the catch-up began (see C1) publishes, and the status is Completed while
\* the catch-up goes on.
C6_CatchUpBeforePolling ==
    InCatchUp =>
        /\ task[Driver].pc = "idle"
        /\ register_or_subscribe_pending_sync(status["polling"], 1).receiver # 0

\* The monitors get_monitor returns, and among them the first of those whose
\* best block is lowest.
Fetched == {i \in 1..Len(monitors) : monitors[i].get_monitor}
Lowest ==
    {i \in Fetched : \A j \in Fetched :
        monitors[i].best_block.height <= monitors[j].best_block.height}
FirstLowest == CHOOSE i \in Lowest : \A j \in Lowest : i <= j

\* C7: the listeners of a catch-up attempt are the on-chain wallet, the
\* channel manager and the output sweeper, each with its own best-block hash,
\* followed by the chain monitor iff there is a channel monitor, with the
\* hash of the lowest best block of the monitors, the first of them on a tie.
C7_CatchUpListeners ==
    drv.pc \in {"synchronize_listeners", "sleep"} =>
        /\ Len(chain_listeners) = IF Fetched = {} THEN 3 ELSE 4
        /\ chain_listeners[1] = [block_hash |-> best_block["onchain_wallet"].block_hash,
                                 listener |-> "onchain_wallet"]
        /\ chain_listeners[2] = [block_hash |-> best_block["channel_manager"].block_hash,
                                 listener |-> "channel_manager"]
        /\ chain_listeners[3] = [block_hash |-> best_block["output_sweeper"].block_hash,
                                 listener |-> "output_sweeper"]
        /\ Fetched # {} =>
              chain_listeners[4] =
                  [block_hash |-> monitors[FirstLowest].best_block.block_hash,
                   listener |-> "chain_monitor"]

\* A catch-up attempt of a node with two monitors at the same height on
\* different blocks, whose three listeners are not all on one block.
C7_Witness ==
    /\ drv.pc = "synchronize_listeners"
    /\ Len(monitors) = 2
    /\ Fetched = {1, 2}
    /\ monitors[1].best_block.height = monitors[2].best_block.height
    /\ monitors[1].best_block.block_hash # monitors[2].best_block.block_hash
    /\ best_block["onchain_wallet"] # best_block["channel_manager"]
    /\ best_block["channel_manager"] # best_block["output_sweeper"]
    /\ Len(chain_listeners) = 4

RECURSIVE Pow2(_)
Pow2(n) == IF n = 0 THEN 1 ELSE 2 * Pow2(n - 1)

\* min(2 * 2^(k-1), 300)
BackoffOf(k) == IF 2 * Pow2(k - 1) <= 300 THEN 2 * Pow2(k - 1) ELSE 300

\* C8: the k-th transient failure of the initial catch-up is followed by a
\* sleep of min(2 * 2^(k-1), 300) seconds, any other failure by a sleep of
\* 300 seconds that leaves the backoff as it is, no sleep is longer than 300
\* seconds, and a success ends the catch-up: its result is propagated and the
\* polling loop begins.
C8_CatchUpBackoff ==
    /\ [](drv.sleep <= 300)
    /\ [][/\ (drv.pc = "synchronize_listeners" /\ drv'.pc = "sleep") =>
                \/ /\ drv'.transient = drv.transient + 1
                   /\ drv'.sleep = BackoffOf(drv'.transient)
                \/ /\ drv'.transient = drv.transient
                   /\ drv'.sleep = 300
                   /\ drv'.backoff = drv.backoff
          /\ drv.pc = "synchronize_listeners" =>
                drv'.pc \in {"synchronize_listeners", "sleep", "propagate"}
          /\ drv.pc = "propagate" => drv'.pc \in {"propagate", "select"}
          /\ drv.pc = "sleep" => drv'.pc \in {"sleep", "catch_up"}]_vars

\* The sleep after the ninth transient failure: 512 seconds capped to 300.
C8_Witness ==
    /\ drv.pc = "sleep"
    /\ drv.transient = 9
    /\ drv.sleep = 300
    /\ drv.backoff = 300

\* C22: the initial catch-up neither returns nor publishes an error. A step
\* of the driver in its catch-up stays in the catch-up or, from the
\* propagation alone, enters the polling loop; a sleep after a failure leads
\* back to the head of the loop; only the propagation touches the polling
\* status and its channels, it leaves the status Completed and sends nothing
\* but Ok; the propagation is reached from a successful
\* synchronize_listeners alone, with latest_chain_tip set; and the driver
\* never comes back to the catch-up, so that it publishes once.
C22_CatchUpPublishesOk ==
    /\ [][InCatchUp /\ drv' # drv
          => /\ drv'.pc \in {"catch_up", "synchronize_listeners", "sleep",
                             "propagate", "select"}
             /\ drv'.pc = "select" <=> drv.pc = "propagate"
             /\ drv.pc = "sleep" => drv'.pc = "catch_up"
             /\ drv.pc # "propagate" => chan' = chan /\ status' = status
             /\ drv.pc = "propagate"
                  => /\ status'["polling"] = Completed
                     /\ \A c \in Channels :
                            chan'["polling"][c] # chan["polling"][c]
                                => chan'["polling"][c] = "Ok"
             /\ drv'.pc = "propagate"
                  => /\ drv.pc = "synchronize_listeners"
                     /\ latest_chain_tip' \in Tips]_vars
    /\ [][~InCatchUp /\ drv.pc # "init"
          => ~(drv'.pc \in {"catch_up", "synchronize_listeners", "sleep",
                            "propagate"})]_vars

\* The catch-up has succeeded, the polling loop has begun, and a caller that
\* subscribed while the catch-up ran has Ok waiting on its receiver.
C22_Witness ==
    /\ drv.pc = "select"
    /\ drv.backoff = 0
    /\ latest_chain_tip \in Tips
    /\ status["polling"] = Completed
    /\ \E t \in Callers :
          /\ task[t].pc = "await_recv"
          /\ task[t].op = "poll_and_update_listeners"
          /\ chan["polling"][task[t].ch] = "Ok"

(***************************************************************************)
(* Cancellation                                                            *)
(***************************************************************************)
\* C9: once the stop signal is set, continuously_sync_wallets returns.
\* Refuted: the initial catch-up of the Bitcoind driver never looks at the
\* signal, and goes round for as long as synchronize_listeners fails.
C9_DriverReturnsAfterStop == stop_signal ~> (drv.pc = "returned")

\* C10: once the stop signal is set, process_broadcast_queue returns.
\* Refuted: it takes no stop receiver and waits on the queue, which stays
\* open and empty.
C10_PumpReturnsAfterStop == stop_signal ~> (pump.pc = "returned")

(***************************************************************************)
(* The background loops                                                    *)
(***************************************************************************)
\* C11: the sync loop keeps running whatever its work items return: from its
\* select it always comes back to the select with the work item done, or
\* returns on the stop signal. Refuted: after an owner left the status
\* InProgress (see C3) the next tick of the kind subscribes and waits forever.
C11_LoopKeepsRunning ==
    [](drv.pc = "select" => <>(AtSelect \/ drv.pc = "returned"))

(***************************************************************************)
(* The node metrics                                                        *)
(***************************************************************************)
\* Task t ends its work with the result Ok(()) it is about to publish.
EndsOk(t) ==
    /\ task[t].pc # "publish"
    /\ task'[t].pc = "publish"
    /\ task'[t].res = "Ok"

C13_ArchivalGating ==
    [][\A t \in Tasks :
         (task[t].pc = "archive" /\ task'[t].pc # "archive") =>
            LET h == node_metrics.latest_channel_monitor_archival_height
                cur == best_block["channel_manager"].height
            IN IF h = NoHeight \/ cur >= h + RESOLVED_CHANNEL_MONITOR_ARCHIVAL_INTERVAL
               THEN /\ archival_heights' = archival_heights \o <<cur>>
                    /\ node_metrics'.latest_channel_monitor_archival_height = cur
                    /\ task'[t].res = "Ok" => kv_store'
                    /\ task'[t].res # "Ok" => ~kv_store'
               ELSE /\ archival_heights' = archival_heights
                    /\ node_metrics'.latest_channel_monitor_archival_height = h
                    /\ kv_store' = kv_store]_vars

\* A first archival at height 1, none while fewer than six blocks had
\* followed, and the next one six blocks later.
C13_Witness ==
    /\ archival_heights = <<1, 7>>
    /\ node_metrics.latest_channel_monitor_archival_height = 7

\* C14: monotone metrics. No update that is written to the store makes
\* latest_onchain_wallet_sync_timestamp, latest_lightning_wallet_sync_timestamp
\* or latest_fee_rate_cache_update_timestamp smaller than it was, or absent
\* where it was present (NoTime is below every reading of the clock).
C14_MonotoneMetrics ==
    [][(node_metrics' # node_metrics /\ kv_store') =>
          /\ node_metrics'.latest_onchain_wallet_sync_timestamp
                 >= node_metrics.latest_onchain_wallet_sync_timestamp
          /\ node_metrics'.latest_lightning_wallet_sync_timestamp
                 >= node_metrics.latest_lightning_wallet_sync_timestamp
          /\ node_metrics'.latest_fee_rate_cache_update_timestamp
                 >= node_metrics.latest_fee_rate_cache_update_timestamp]_vars

\* C15: missed-tick policy. Whenever an Interval of the tx-based loop or of
\* the Bitcoind polling loop ticks, however many periods late, the loop is in
\* its select!, the tick starts the one work item of its branch, and the
\* Interval's next deadline lies ahead, at most a period away: the ticks that
\* were missed are skipped, not fired in a burst.
C15_MissedTicksSkipped ==
    [][\A ticker \in DOMAIN interval.deadline :
          interval'.deadline[ticker] > interval.deadline[ticker] =>
              /\ AtSelect
              /\ task'[Driver].pc # "idle"
              /\ interval'.deadline[ticker] \in 1..Period(ticker)]_vars

\* A work item was started by a tick that came two or more periods late, and
\* the Interval's next deadline is ahead.
C15_Witness ==
    /\ interval.missed >= 2
    /\ task[Driver].pc # "idle"
    /\ \A ticker \in Intervals(backend) : interval.deadline[ticker] >= 1

\* C16: mainnet fail-closed. On Network::Bitcoin, a call of
\* update_fee_rate_estimates whose Esplora estimates are empty, or whose
\* Bitcoind fetch for the target at hand fails, returns at that step with
\* FeerateEstimationUpdateFailed (FeerateEstimationUpdateTimeout if the fetch
\* timed out instead of answering), and neither that step nor any earlier
\* step of the call touches the fee-rate cache or the node metrics.
C16_MainnetFailClosed ==
    [][\A t \in Tasks :
          (/\ task[t].pc = "await_fee"
           /\ network = "Bitcoin"
           /\ task'[t] # task[t] \/ fee_update'[t] # fee_update[t]) =>
              /\ fee_rate_cache' = fee_rate_cache \/ task'[t].pc = "record_fee"
              /\ node_metrics' = node_metrics
              /\ (\/ backend = "Esplora"
                       /\ \A target \in ConfirmationTargets :
                              estimates[target] = NoEstimate
                  \/ backend = "Bitcoind"
                       /\ estimates[fee_update[t].target] = NoEstimate) =>
                     /\ task'[t].pc = "returned"
                     /\ task'[t].res \in {"FeerateEstimationUpdateFailed",
                                          "FeerateEstimationUpdateTimeout"}
                     /\ fee_rate_cache' = fee_rate_cache]_vars

\* An update on mainnet has failed on empty Esplora estimates and the cache
\* and timestamp of an earlier update are still there.
C16_Witness ==
    \E t \in Tasks :
        /\ task[t].pc = "returned"
        /\ task[t].op = "update_fee_rate_estimates"
        /\ task[t].res = "FeerateEstimationUpdateFailed"
        /\ network = "Bitcoin" /\ backend = "Esplora"
        /\ \A target \in ConfirmationTargets : estimates[target] = NoEstimate
        /\ fee_rate_cache # EmptyMap
        /\ node_metrics.latest_fee_rate_cache_update_timestamp = MaxNow

C18_TestnetSkipsUpdate ==
    [][\A t \in Tasks :
          (/\ backend = "Bitcoind"
           /\ network \notin {"Bitcoin", "Regtest", "Signet"}
           /\ task[t].pc = "await_fee"
           /\ task'[t] # task[t] \/ fee_update'[t] # fee_update[t]) =>
              /\ fee_rate_cache' = fee_rate_cache \/ task'[t].pc = "record_fee"
              /\ node_metrics' = node_metrics
              /\ estimates[fee_update[t].target] = NoEstimate =>
                     /\ task'[t].pc = "returned"
                     /\ task'[t].res \in {"Ok", "FeerateEstimationUpdateTimeout"}
                     /\ fee_rate_cache' = fee_rate_cache]_vars

\* A call on testnet has returned Ok(()) with the estimate of the first
\* target there and that of the last one failing, and the cache is as it was
\* built.
C18_Witness ==
    \E t \in Tasks :
        /\ backend = "Bitcoind" /\ network = "Testnet"
        /\ estimates[1] # NoEstimate /\ estimates[MaxTargets] = NoEstimate
        /\ task[t].pc = "returned" /\ task[t].res = "Ok"
        /\ task[t].op = "update_fee_rate_estimates"
        /\ fee_rate_cache = EmptyMap

RECURSIVE Flatten(_)
Flatten(packages) ==
    IF packages = <<>> THEN <<>> ELSE Head(packages) \o Flatten(Tail(packages))

\* C20: broadcast ordering and continuation. The broadcasts attempted so
\* far, the rest of the package at hand and the packages still queued are
\* together the transactions sent, in the order they were sent: packages are
\* taken in queue order, their transactions in package order, none skipped and
\* none attempted twice, whatever the attempts came to. And the consumer goes
\* on: every transaction of a package it has received is attempted.
C20_BroadcastOrder ==
    LET Txs(attempts) == [i \in 1..Len(attempts) |-> attempts[i][1]]
        Received == Len(pump.attempts) + Len(pump.package)
    IN /\ [](Txs(pump.attempts) \o pump.package \o Flatten(broadcast_queue.packages)
               = broadcast_queue.sent)
       /\ \A n \in 1..(MaxSent + 2) :
              (Received = n) ~> (Len(pump.attempts) >= n)

\* A package of two has been attempted in order although its first broadcast
\* failed, and the consumer is back at the queue.
C20_Witness ==
    /\ pump.pc = "recv"
    /\ pump.attempts = <<<<2, "err">>, <<1, "ok">>>>
    /\ broadcast_queue.sent = <<2, 1>>

C24_FailedSyncKeepsTimestamps ==
    /\ [][\A t \in Tasks :
             (/\ task[t].pc = "await_sync"
              /\ task'[t].pc = "publish"
              /\ task'[t].res \notin {"Ok", "PersistenceFailed"})
               => /\ node_metrics' = node_metrics
                  /\ kv_store' = kv_store
                  /\ task[t].op = "sync_onchain_wallet"
                       => task'[t].res \in {"WalletOperationFailed",
                                            "WalletOperationTimeout"}
                  /\ task[t].op = "sync_lightning_wallet"
                       => task'[t].res \in {"TxSyncFailed", "TxSyncTimeout"}]_vars
    /\ [](\A outcome \in OnchainOutcomes \ {"ok"} :
             wallet_update_error(outcome) =
                 IF outcome = "timeout" THEN "WalletOperationTimeout"
                 ELSE "WalletOperationFailed")
    /\ [](tx_sync_error("timeout") = "TxSyncTimeout")

\* On Esplora the driver's on-chain sync has timed out and a caller's
\* lightning sync has timed out, before any sync succeeded: both are about to
\* publish their timeouts and no timestamp is set.
C24_Witness ==
    /\ backend = "Esplora"
    /\ task[Driver].pc = "publish"
    /\ task[Driver].op = "sync_onchain_wallet"
    /\ task[Driver].res = "WalletOperationTimeout"
    /\ \E t \in Callers :
          /\ task[t].pc = "publish"
          /\ task[t].op = "sync_lightning_wallet"
          /\ task[t].res = "TxSyncTimeout"
    /\ node_metrics.latest_onchain_wallet_sync_timestamp = NoTime
    /\ node_metrics.latest_lightning_wallet_sync_timestamp = NoTime

\* C25: the order of a successful lightning sync. The archival is entered
\* from the sync alone, in the step that has stored the timestamp and
\* written the metrics; Ok is handed to the propagation from the archival
\* alone; a sync that goes from its await to the propagation, as every failed
\* and timed-out sync does, has archived nothing; and the archival height and
\* the list of archivals change only in the archival step of a lightning
\* sync.
C25_LightningSuccessOrder ==
    [][/\ \A t \in Tasks :
            /\ (task[t].pc # "archive" /\ task'[t].pc = "archive")
                 => /\ task[t].pc = "await_sync"
                    /\ task[t].op = "sync_lightning_wallet"
                    /\ node_metrics'.latest_lightning_wallet_sync_timestamp = now'
                    /\ now' # NoTime
                    /\ kv_store'
            /\ (/\ task[t].pc # "publish"
                /\ task'[t].pc = "publish"
                /\ task[t].op = "sync_lightning_wallet")
                 => (task'[t].res = "Ok" <=> task[t].pc = "archive")
       /\ (\/ archival_heights' # archival_heights
           \/ node_metrics'.latest_channel_monitor_archival_height
                # node_metrics.latest_channel_monitor_archival_height)
            => \E t \in Tasks : /\ task[t].pc = "archive"
                                /\ task[t].op = "sync_lightning_wallet"
                                /\ task'[t].pc # "archive"]_vars

\* A lightning sync has stored its timestamp, written the metrics, archived
\* at the current height and is about to publish Ok.
C25_Witness ==
    \E t \in Tasks :
        /\ task[t].pc = "publish"
        /\ task[t].op = "sync_lightning_wallet"
        /\ task[t].res = "Ok"
        /\ node_metrics.latest_lightning_wallet_sync_timestamp # NoTime
        /\ kv_store
        /\ archival_heights = <<best_block["channel_manager"].height>>

(***************************************************************************)
(* poll_and_update_listeners                                               *)
(***************************************************************************)
\* C26: latest_chain_tip is written by the success of the initial catch-up,
\* by a poll that found no tip and whose validate_best_block_header
\* succeeded, and by a poll whose poll_best_tip returned Ok, and by nothing
\* else; a poll whose call fails leaves it as it was; and once a tip is
\* stored a tip stays stored.
C26_ChainTipWrites ==
    [][/\ latest_chain_tip' # latest_chain_tip
            => \/ drv.pc = "synchronize_listeners" /\ drv'.pc = "propagate"
               \/ \E t \in Tasks : /\ task[t].pc = "await_validate"
                                   /\ task'[t].pc = "lock_header_cache"
               \/ \E t \in Tasks : /\ task[t].pc = "await_poll_best_tip"
                                   /\ task'[t].pc = "await_mempool"
       /\ latest_chain_tip # NoTip => latest_chain_tip' # NoTip
       /\ \A t \in Tasks :
              (task[t].pc # "publish" /\ task'[t].pc = "publish")
                  => latest_chain_tip' = latest_chain_tip]_vars

\* A poll has stored a better tip than the one the catch-up left, and its
\* mempool query is under way.
C26_Witness ==
    /\ drv.pc = "select"
    /\ latest_chain_tip = 2
    /\ \E t \in Tasks : task[t].pc = "await_mempool"

\* C27: the errors of a poll. A poll whose validate_best_block_header,
\* poll_best_tip or mempool query fails carries TxSyncFailed and has left the
\* metrics alone; a poll that got through them carries Ok or, after a failed
\* write_node_metrics, PersistenceFailed (a failure of apply_mempool_txs is
\* not among the results); and the owner returns what it carries, with the
\* same value sent to every subscriber of its episode. Refuted: in a debug
\* build the driver's assertion (see C1) poisons wallet_polling_status, and
\* the owner panics where it would propagate.
C27_PollErrors ==
    [][\A t \in Tasks :
          /\ (/\ task[t].pc \in {"await_validate", "await_poll_best_tip", "await_mempool"}
              /\ task'[t].pc = "publish")
               => /\ task'[t].res \in {"Ok", "PersistenceFailed", "TxSyncFailed"}
                  /\ task'[t].res = "TxSyncFailed" => node_metrics' = node_metrics
                  /\ task'[t].res = "Ok" => kv_store'
                  /\ task'[t].res = "PersistenceFailed" => ~kv_store'
                  /\ task[t].pc # "await_mempool" => task'[t].res = "TxSyncFailed"
          /\ (/\ task[t].pc = "publish"
              /\ task[t].op = "poll_and_update_listeners"
              /\ task'[t] # task[t])
               => /\ task'[t].pc = "returned"
                  /\ task'[t].res = task[t].res
                  /\ \A s \in Tasks :
                        (/\ task[s].pc = "await_recv"
                         /\ task[s].op = "poll_and_update_listeners"
                         /\ task[s].ch = task[t].ch)
                          => chan'["polling"][task[t].ch] = task[t].res]_vars

(***************************************************************************)
(* The fee updates: coordination and timeouts                              *)
(***************************************************************************)
\* C28: the fee updates are single-flight. Of the update_fee_rate_estimates
\* calls under way at most one is fetching estimates or about to record the
\* cache it swapped in. Refuted: update_fee_rate_estimates registers with no
\* WalletSyncStatus, and the tick of the driver and a manual call fetch side
\* by side.
C28_FeeUpdateSingleFlight ==
    Cardinality({t \in Tasks : /\ task[t].op = "update_fee_rate_estimates"
                               /\ task[t].pc \in {"await_fee", "record_fee"}}) <= 1

\* C29: a fee update whose fetch times out. The step in which
\* update_fee_rate_estimates returns FeerateEstimationUpdateTimeout, and the
\* steps of the call before it, leave the fee-rate cache, the metrics with
\* latest_fee_rate_cache_update_timestamp and the store as they were, on
\* every network and backend.
C29_FeeTimeout ==
    [][\A t \in Tasks :
          (/\ task[t].pc = "await_fee"
           /\ \/ /\ task'[t].pc = "returned"
                 /\ task'[t].res = "FeerateEstimationUpdateTimeout"
              \/ /\ task'[t].pc = "await_fee"
                 /\ fee_update'[t] # fee_update[t])
            => /\ fee_rate_cache' = fee_rate_cache
               /\ node_metrics' = node_metrics
               /\ kv_store' = kv_store]_vars

\* On testnet a fee update of Bitcoind has timed out after an earlier update
\* had filled the cache and stored its timestamp: both are still there.
C29_Witness ==
    /\ backend = "Bitcoind"
    /\ network = "Testnet"
    /\ \E t \in Tasks :
          /\ task[t].pc = "returned"
          /\ task[t].res = "FeerateEstimationUpdateTimeout"
    /\ fee_rate_cache # EmptyMap
    /\ node_metrics.latest_fee_rate_cache_update_timestamp # NoTime

(***************************************************************************)
(* Locks and suspension points                                             *)
(***************************************************************************)
\* C30: the lock of the header cache is held for one work item. Whoever
\* holds it is in a synchronize_listeners attempt of the catch-up or in a
\* poll between its poll_best_tip and its return, and the catch-up does not
\* hold it while it sleeps after a failed attempt. Refuted: the guard of the
\* catch-up lives to the end of the loop body, the backoff sleep included.
C30_HeaderCacheLocalised ==
    /\ drv.pc = "sleep" => header_cache # Driver
    /\ \A t \in Tasks :
          header_cache = t
            => \/ /\ t = Driver
                  /\ drv.pc \in {"synchronize_listeners", "sleep"}
               \/ /\ task[t].op = "poll_and_update_listeners"
                  /\ task[t].pc \in {"await_poll_best_tip", "await_mempool", "publish"}

(***************************************************************************)
(* The Electrum runtime status: stop, client, failed and repeated starts   *)
(***************************************************************************)
\* C31: stop and client. A step that takes the status from Started to
\* Stopped, or that makes it hold fewer registrations than it held, leaves
\* the status of ElectrumRuntimeStatus::new(): Stopped, both queues empty,
\* nothing of the old client kept. A Stopped status has no client and a
\* Started one has, so that the start after a stop replays what was
\* registered since (see C5).
C31_StopAndClient ==
    /\ [][(\/ /\ electrum_runtime_status.state = "Started"
              /\ electrum_runtime_status'.state = "Stopped"
           \/ Registrations(electrum_runtime_status')
                < Registrations(electrum_runtime_status))
          => /\ electrum_runtime_status'.state = "Stopped"
             /\ electrum_runtime_status'.pending_registered_txs = <<>>
             /\ electrum_runtime_status'.pending_registered_outputs = <<>>
             /\ electrum_runtime_status'.client = <<>>]_vars
    /\ [](electrum_runtime_status.state = "Stopped"
            => /\ ~ElectrumClient
               /\ electrum_runtime_status.client = <<>>)
    /\ []((/\ electrum_runtime_status.state = "Started"
           /\ "electrum_runtime_status" \notin poisoned) => ElectrumClient)

\* A Stopped status whose queues are as full as they get, a tx and outputs
\* among the entries: stop() discards them, start() replays them.
C31_Witness ==
    /\ electrum_runtime_status.state = "Stopped"
    /\ electrum_runtime_status.pending_registered_txs # <<>>
    /\ electrum_runtime_status.pending_registered_outputs # <<>>
    /\ Registrations(electrum_runtime_status) = MaxRegistrations

\* The larger of two numbers.
C32_Max(a, b) == CHOOSE m \in {a, b} : \A x \in {a, b} : m >= x

\* The period the claim gives a ticker: the configured seconds or the minimum,
\* whichever is larger, in the tx-based loop; the polling interval in the
\* loop of Bitcoind.
C32_Period(ticker) ==
    IF backend = "Bitcoind" THEN CHAIN_POLLING_INTERVAL_SECS
    ELSE C32_Max(interval.secs[ticker], WALLET_SYNC_INTERVAL_MINIMUM_SECS)

\* C32: first ticks. When the loop of either driver reaches its select! for
\* the first time, the fee-rate ticker is due one full period later and not
\* at once, and the on-chain, lightning and chain-poll tickers are due at
\* once. A work item of the driver starts only on a ticker that is due. A
\* ticker that fires on time is due again a period later, the period of a
\* tx-based ticker being max(configured interval,
\* WALLET_SYNC_INTERVAL_MINIMUM_SECS).
C32_FirstTicks ==
    /\ [][(drv.pc # "select" /\ drv'.pc = "select")
            => \A ticker \in Intervals(backend) :
                   interval'.deadline[ticker] =
                       IF ticker = "fee_rate_update_interval"
                       THEN C32_Period(ticker) ELSE 0]_vars
    /\ [][(task[Driver].pc = "idle" /\ task'[Driver].pc # "idle")
            => \E ticker \in Intervals(backend) :
                   /\ interval.deadline[ticker] <= 0
                   /\ interval'.deadline[ticker] >= 1]_vars
    /\ [][\A ticker \in Intervals(backend) :
              (/\ interval.deadline[ticker] = 0
               /\ interval'.deadline[ticker] # 0)
              => interval'.deadline[ticker] \in {-1, C32_Period(ticker)}]_vars
    /\ [](\A ticker \in Intervals(backend) : C32_Period(ticker) >= 1)

\* The fee-rate ticker of a tx-based loop configured below the minimum has
\* fired on a deadline of its own and is due again the minimum later, while
\* the update it started runs.
C32_Witness ==
    /\ backend = "Esplora"
    /\ interval.secs["fee_rate_update_interval"] < WALLET_SYNC_INTERVAL_MINIMUM_SECS
    /\ task[Driver].op = "update_fee_rate_estimates"
    /\ task[Driver].pc # "idle"
    /\ interval.missed = 0
    /\ interval.deadline["fee_rate_update_interval"] = WALLET_SYNC_INTERVAL_MINIMUM_SECS

\* The step is the set_fee_rate_cache call of task t.
C33_Swaps(t) == task[t].pc = "await_fee" /\ task'[t].pc = "record_fee"

\* C33: the fee-cache swap is all-or-nothing. set_fee_rate_cache is called
\* with a map that has an entry for every target of get_all_conf_targets(),
\* and at most once in a call: only from the fetching part of the call, which
\* the call never comes back to. Outside of a swap the cache stays as it is,
\* so a call that returns an error or skips the update from its fetching part
\* leaves the cache alone, and the cache never holds a partial map.
\* latest_fee_rate_cache_update_timestamp changes only in the step that
\* follows the swap of the same call.
C33_SwapAllOrNothing ==
    /\ [][\A t \in Tasks :
              /\ C33_Swaps(t) => DOMAIN fee_rate_cache' = ConfirmationTargets
              /\ task[t].pc = "record_fee"
                   => task'[t].pc \in {"record_fee", "returned"}
              /\ (task[t].pc = "await_fee" /\ task'[t].pc = "returned")
                   => (/\ fee_rate_cache' = fee_rate_cache
                       /\ node_metrics' = node_metrics)]_vars
    /\ [][fee_rate_cache' # fee_rate_cache => \E t \in Tasks : C33_Swaps(t)]_vars
    /\ [][node_metrics'.latest_fee_rate_cache_update_timestamp
             # node_metrics.latest_fee_rate_cache_update_timestamp
            => \E t \in Tasks : /\ task[t].pc = "record_fee"
                                /\ task'[t].pc = "returned"]_vars
    /\ [](DOMAIN fee_rate_cache \in {{}, ConfirmationTargets})

\* A Bitcoind call has fetched every target and swapped the complete map in,
\* and has not recorded the timestamp yet.
C33_Witness ==
    /\ backend = "Bitcoind"
    /\ \E t \in Tasks : task[t].pc = "record_fee"
    /\ DOMAIN fee_rate_cache = ConfirmationTargets
    /\ node_metrics.latest_fee_rate_cache_update_timestamp = NoTime

\* The error each operation returns when it finds no Electrum client.
C34_Error(op) ==
    CASE op = "sync_onchain_wallet" -> "FeerateEstimationUpdateFailed"
      [] op = "sync_lightning_wallet" -> "TxSyncFailed"
      [] op = "update_fee_rate_estimates" -> "FeerateEstimationUpdateFailed"
      [] OTHER -> "-"

\* Task t enters one of the three operations of an Electrum chain source
\* whose runtime status is Stopped.
C34_CallWhileStopped(t) ==
    /\ backend = "Electrum"
    /\ electrum_runtime_status.state = "Stopped"
    /\ task[t].pc = "idle"
    /\ task'[t].pc # "idle"

\* process_broadcast_queue is called on such a chain source.
C34_PumpWhileStopped ==
    /\ backend = "Electrum"
    /\ electrum_runtime_status.state = "Stopped"
    /\ pump.pc = "init"
    /\ pump'.pc # "init"

\* The call registers in no sync status, sends nothing, and leaves the node
\* metrics, the store, the fee-rate cache and the broadcast queue alone.
C34_NoSideEffects ==
    /\ status' = status
    /\ chan' = chan
    /\ node_metrics' = node_metrics
    /\ kv_store' = kv_store
    /\ fee_rate_cache' = fee_rate_cache
    /\ broadcast_queue' = broadcast_queue
    /\ poisoned' = poisoned

\* C34 as stated: while the runtime status of an Electrum chain source is
\* Stopped, sync_onchain_wallet returns FeerateEstimationUpdateFailed,
\* sync_lightning_wallet returns TxSyncFailed and update_fee_rate_estimates
\* returns FeerateEstimationUpdateFailed, without registering in a sync
\* status or changing the node metrics, and process_broadcast_queue returns
\* without taking a package from the broadcast queue.
C34_ReturnsError ==
    /\ [][\A t \in Tasks :
              C34_CallWhileStopped(t)
                => /\ task'[t].pc = "returned"
                   /\ task'[t].res = C34_Error(task'[t].op)
                   /\ task'[t].res # "-"
                   /\ C34_NoSideEffects]_vars
    /\ [][C34_PumpWhileStopped
            => pump'.pc = "returned" /\ C34_NoSideEffects]_vars

\* C34, amended: in a build without debug assertions the operations return
\* these errors and process_broadcast_queue returns; in a build with debug
\* assertions each of them panics at its debug_assert!(false) instead. In
\* both builds the call registers in no sync status, changes no node metrics
\* and takes no package from the broadcast queue.
C34_NotStarted ==
    /\ [][\A t \in Tasks :
              C34_CallWhileStopped(t)
                => /\ task'[t].pc = IF debug_assertions THEN "panicked" ELSE "returned"
                   /\ C34_Error(task'[t].op) # "-"
                   /\ ~debug_assertions => task'[t].res = C34_Error(task'[t].op)
                   /\ C34_NoSideEffects]_vars
    /\ [][C34_PumpWhileStopped
            => /\ pump'.pc = IF debug_assertions THEN "panicked" ELSE "returned"
               /\ C34_NoSideEffects]_vars

\* A release build whose chain source is Stopped: a lightning sync has come
\* back with TxSyncFailed and process_broadcast_queue has returned with a
\* package still in the queue.
C34_Witness ==
    /\ backend = "Electrum"
    /\ ~debug_assertions
    /\ electrum_runtime_status.state = "Stopped"
    /\ \E t \in Callers : /\ task[t].pc = "returned"
                          /\ task[t].op = "sync_lightning_wallet"
                          /\ task[t].res = "TxSyncFailed"
    /\ pump.pc = "returned"
    /\ broadcast_queue.packages # <<>>

\* Sequence a is the beginning of sequence b.
C35_Prefix(a, b) == Len(a) <= Len(b) /\ SubSeq(b, 1, Len(a)) = a

\* C35: a failed Electrum start keeps the pending registrations. A start()
\* whose client cannot be constructed leaves a Stopped status as it is, both
\* queues included, so that the successful start() after it replays every
\* registration made so far; between two stops nothing leaves a queue except
\* into the client. A start() of a Started status leaves the status, its
\* client included, as it is, also where it panics at its debug_assert! and
\* poisons the lock around the status, which nothing else does.
C35_FailedStartKeepsPending ==
    /\ [](electrum_runtime_status.state = "Stopped"
            => /\ ElectrumRuntimeStatus_start(electrum_runtime_status, FALSE)
                    = electrum_runtime_status
               /\ ElectrumRuntimeStatus_start(
                      ElectrumRuntimeStatus_start(electrum_runtime_status, FALSE),
                      TRUE).client = PendingInOrder(electrum_runtime_status))
    /\ [](electrum_runtime_status.state = "Started"
            => \A client_ok \in BOOLEAN :
                   ElectrumRuntimeStatus_start(electrum_runtime_status, client_ok)
                       = electrum_runtime_status)
    /\ [][(/\ electrum_runtime_status.state = "Stopped"
           /\ electrum_runtime_status'.state = "Stopped"
           /\ electrum_runtime_status' # ElectrumRuntimeStatus_new)
          => /\ C35_Prefix(electrum_runtime_status.pending_registered_txs,
                           electrum_runtime_status'.pending_registered_txs)
             /\ C35_Prefix(electrum_runtime_status.pending_registered_outputs,
                           electrum_runtime_status'.pending_registered_outputs)]_vars
    /\ [][poisoned' # poisoned
            => /\ debug_assertions
               /\ electrum_runtime_status.state = "Started"
               /\ electrum_runtime_status' = electrum_runtime_status
               /\ poisoned' = poisoned \cup {"electrum_runtime_status"}]_vars

\* A debug build in which start() was called on a Started status that had
\* replayed registrations to its client: the status is as it was and the
\* lock is poisoned.
C35_Witness ==
    /\ debug_assertions
    /\ electrum_runtime_status.state = "Started"
    /\ electrum_runtime_status.replayed >= 2
    /\ electrum_runtime_status.client # <<>>
    /\ "electrum_runtime_status" \in poisoned

\* C36: archival heights are spaced. Whatever lightning syncs run and however
\* the best-block height of the channel manager moves, down included,
\* latest_channel_monitor_archival_height never decreases; a step that
\* changes it records the first height or one at least
\* RESOLVED_CHANNEL_MONITOR_ARCHIVAL_INTERVAL above the one recorded, which
\* may be the one the node started with; it is the height of the last
\* archival once one has run, and each archival is at least the interval
\* above the one before it.
C36_ArchivalSpaced ==
    /\ [][LET h == node_metrics.latest_channel_monitor_archival_height
              h_next == node_metrics'.latest_channel_monitor_archival_height
          IN /\ h_next >= h
             /\ h_next # h
                  => \/ h = NoHeight
                     \/ h_next >= h + RESOLVED_CHANNEL_MONITOR_ARCHIVAL_INTERVAL]_vars
    /\ [](archival_heights # <<>>
            => node_metrics.latest_channel_monitor_archival_height
                   = archival_heights[Len(archival_heights)])
    /\ [](\A i \in 1..(Len(archival_heights) - 1) :
            archival_heights[i + 1]
                >= archival_heights[i] + RESOLVED_CHANNEL_MONITOR_ARCHIVAL_INTERVAL)

\* Two archivals an interval or more apart, then a reorganisation: a sync has
\* taken the channel manager below the recorded height and has gone through
\* its archival step, which recorded nothing.
C36_Witness ==
    /\ Len(archival_heights) = 2
    /\ best_block["channel_manager"].height
         < node_metrics.latest_channel_monitor_archival_height
    /\ \E t \in Tasks : /\ task[t].op = "sync_lightning_wallet"
                        /\ task[t].pc = "publish"
                        /\ task[t].res = "Ok"

\* A work item of the driver is under way.
C37_Working == task[Driver].pc # "idle"

\* C37: a driver runs its work items one at a time. While a work item of the
\* loop is under way it is not replaced by another, no Interval of the loop
\* fires (no deadline moves ahead) and the loop does not return on the stop
\* signal; a work item starts from the select! only, with no other under
\* way, on the step in which one Interval fires.
C37_OneAtATime ==
    /\ [][C37_Working
            => /\ drv' = drv
               /\ \A ticker \in DOMAIN interval.deadline :
                      interval'.deadline[ticker] <= interval.deadline[ticker]
               /\ \/ task'[Driver].pc = "idle"
                  \/ task'[Driver].op = task[Driver].op]_vars
    /\ [][(~C37_Working /\ C37_Working')
            => /\ drv.pc = "select" /\ drv'.pc = "select"
               /\ Cardinality({ticker \in Intervals(backend) :
                                   interval'.deadline[ticker]
                                       # interval.deadline[ticker]}) = 1]_vars
    /\ [][(drv.pc = "select" /\ drv'.pc # "select") => ~C37_Working]_vars

\* A work item is under way while the Interval of another is due and the
\* stop signal is set: neither is looked at before the work item is over.
C37_Witness ==
    /\ drv.pc = "select"
    /\ task[Driver].pc \notin {"idle", "returned"}
    /\ stop_signal
    /\ \E ticker \in Intervals(backend) : interval.deadline[ticker] < 0

====
